---- MODULE Spec2Model ----
(***************************************************************************)
(* Digital-signage backend: the device_content rule store, the playlist    *)
(* resolver and the device registry of production_app.py, as a state       *)
(* machine over the four SQLite tables, the upload folder and the          *)
(* process-wide LAST_CONTENT_UPDATE marker.  One action per HTTP handler.  *)
(***************************************************************************)
EXTENDS Integers, Sequences, FiniteSets, TLC

\* ------------------------------------------------------------------ bounds
\* uploads accepted in one run (media ids are 1..MaxMedia)
MaxMedia == 2
\* rows ever inserted into device_content in one run
MaxRules == 3
\* seconds the wall clock may advance in one run
MaxClock == 2
\* presses of 'r' the supervisor follows in one run
MaxRestarts == 2

\* data.get('display_duration', 10) and the column's DEFAULT 10
DefaultDuration == 10

\* ------------------------------------------------------- SQL / Python values
\* SQL NULL / Python None; a present value v is the one-element tuple <<v>>
NULL == <<>>
Some(v) == <<v>>
Val(x) == x[1]

\* Python truthiness of an optional string ("if start_time_str") and of an
\* optional integer or string id ("if not media_id")
TruthyStr(x) == x # NULL /\ Val(x) # ""
\* mutant: only a missing value is falsy
TruthyIntNotNone(x) == x # NULL
TruthyInt(x) == x # NULL /\ Val(x) # 0
\* dict.get(key, default): an absent key is NULL here
Get(x, default) == IF x = NULL THEN default ELSE Val(x)

Max(S) == CHOOSE x \in S : \A y \in S : y <= x

\* every ordering of the finite set S, as sequences without repetition
Orderings(S) ==
    {s \in [1..Cardinality(S) -> S] : \A i, j \in 1..Cardinality(S) : i # j => s[i] # s[j]}

\* ------------------------------------------------------------------ calendar
\* A date is a day number; day 0 is a Monday.  ISO 'YYYY-MM-DD' strings compare
\* as their day numbers do, which is how SQLite compares the stored TEXT with
\* the adapted date parameter.
DayTokens == <<"mon", "tue", "wed", "thu", "fri", "sat", "sun">>
\* today.strftime('%a').lower()
strftime_a(d) == DayTokens[(d % 7) + 1]

\* seconds since midnight of h:m:s
HMS(h, m, s) == (h * 60 + m) * 60 + s
ValueError == -1
\* datetime.time.fromisoformat on the stored TEXT: 'HH:MM' is HH:MM:00, and a
\* string that is not ISO raises ValueError
fromisoformat(str) ==
    CASE str = "08:00" -> HMS(8, 0, 0)
      [] str = "09:00" -> HMS(9, 0, 0)
      [] str = "17:00" -> HMS(17, 0, 0)
      [] str = "20:00" -> HMS(20, 0, 0)
      [] OTHER -> ValueError

\* ------------------------------------------------------------------- devices
\* device ids a client may poll with
DeviceIds == {"SPOOF001", "ANDROID-TV-LOBBY"}
\* device_id[:8]
First8(device_id) ==
    CASE device_id = "ANDROID-TV-LOBBY" -> "ANDROID-"
      [] OTHER -> device_id
\* f'TV-{device_id[:8]}', as the pair of its parts
GeneratedName(device_id) == <<"TV-", First8(device_id)>>

\* --------------------------------------------------------------------- state
VARIABLES
    media,                \* table media: rows [id, filename, file_type, video_duration]
    media_seq,            \* AUTOINCREMENT high-water mark of media.id
    devices,              \* table devices
    device_content,       \* table device_content (the schedule rules)
    content_seq,          \* AUTOINCREMENT high-water mark of device_content.id
    playback_analytics,   \* table playback_analytics: rows [device_id, media_id]
    uploads,              \* file names present in the upload folder
    LAST_CONTENT_UPDATE,  \* the process-wide marker (a time.time() reading)
    clock,                \* wall clock, in seconds
    lastCall,             \* the request handled last
    response,             \* the reply to it
    committed_checkins,   \* device check-in writes the last request committed
    inflight,             \* per server thread, the request it is in the middle of
    supervisor            \* the hot-restart supervisor and the processes it started

vars == <<media, media_seq, devices, device_content, content_seq, playback_analytics,
          uploads, LAST_CONTENT_UPDATE, clock, lastCall, response, committed_checkins,
          inflight, supervisor>>

tables == <<media, media_seq, devices, device_content, content_seq, playback_analytics>>

Call(op, device_id, media_id, arg) ==
    [op |-> op, device_id |-> device_id, media_id |-> media_id, arg |-> arg]

Reply(status, msg, count, playlist) ==
    [status |-> status, msg |-> msg, count |-> count, playlist |-> playlist]

\* the server threads that may be handling a request at the same time (two of
\* the pool given to serve())
Threads == {1, 2}

\* a thread between requests
Idle ==
    [pc |-> "idle", device_id |-> "", media_id |-> 0, remote_addr |-> "", today |-> 0,
     current_time |-> 0, rows |-> <<>>, next_order |-> 0,
     store |-> [dc |-> {}, md |-> {}]]

\* server_hot_restart.py when monitor_keys is entered: server_proc is None
\* (0), the first start_server thread has been started and has not yet run,
\* no server process exists
Launched ==
    [server_proc |-> 0, spawned |-> 0, alive |-> {}, doomed |-> {}, starting |-> 1,
     storing |-> {}, monitor |-> "wait_key", restarts |-> 0]

Init ==
    /\ inflight = [t \in Threads |-> Idle]
    /\ supervisor = Launched
    /\ media = {}
    /\ media_seq = 0
    /\ devices = {}
    /\ device_content = {}
    /\ content_seq = 0
    /\ playback_analytics = {}
    /\ uploads = {}
    /\ LAST_CONTENT_UPDATE = 0
    /\ clock = 0
    /\ lastCall = Call("init_db", NULL, NULL, NULL)
    /\ response = Reply(0, "", 0, <<>>)
    /\ committed_checkins = 0

\* ------------------------------------------------------------- table helpers
\* INSERT INTO device_content: columns the statement does not name take the
\* schema defaults (NULL; is_active 1), created_at is CURRENT_TIMESTAMP
Rule(id, device_id, media_id, sched, play_order, now) ==
    [id |-> id, device_id |-> device_id, media_id |-> media_id,
     start_date |-> sched.start_date, end_date |-> sched.end_date,
     days_of_week |-> sched.days_of_week,
     display_duration |-> sched.display_duration,
     video_duration |-> sched.video_duration,
     start_time |-> sched.start_time, end_time |-> sched.end_time,
     is_active |-> TRUE, play_order |-> play_order, created_at |-> now]

\* the columns assign_content and assign_all_devices leave to their defaults
DefaultSchedule(duration) ==
    [start_date |-> NULL, end_date |-> NULL, days_of_week |-> NULL,
     display_duration |-> Some(duration), video_duration |-> NULL,
     start_time |-> NULL, end_time |-> NULL]

\* mutant: the duplicate check looks at the inactive rows (is_active = 0)
ActiveAssignmentsInactive(dc, device_id, media_id) ==
    {r \in dc : r.device_id = device_id /\ r.media_id = media_id /\ ~r.is_active}

\* SELECT id FROM device_content WHERE device_id = ? AND media_id = ? AND is_active = 1
ActiveAssignments(dc, device_id, media_id) ==
    {r \in dc : r.device_id = device_id /\ r.media_id = media_id /\ r.is_active}

\* mutant: the next order is COUNT(*) + 1 over the device's active rules
NextPlayOrderCounting(dc, device_id) ==
    Cardinality({x \in dc : x.device_id = device_id /\ x.is_active}) + 1

\* SELECT COALESCE(MAX(play_order), 0) + 1 FROM device_content
\*  WHERE device_id = ? AND is_active = 1      (MAX skips NULLs)
NextPlayOrder(dc, device_id) ==
    LET orders == {Val(r.play_order) :
                     r \in {x \in dc : x.device_id = device_id /\ x.is_active
                                        /\ x.play_order # NULL}}
    IN  IF orders = {} THEN 1 ELSE Max(orders) + 1

\* SELECT device_id FROM devices WHERE is_active = 1
ActiveDevices(dv) == {d.device_id : d \in {x \in dv : x.is_active}}

\* update_content_timestamp(): LAST_CONTENT_UPDATE = time.time()
update_content_timestamp(now) == LAST_CONTENT_UPDATE' = now

\* the request is handled at wall-clock second now; the clock does not run back
At(now) ==
    /\ now \in clock..MaxClock
    /\ clock' = now
    /\ UNCHANGED <<inflight, supervisor>>

\* ------------------------------------------------------- assignment handlers
\* POST /api/assign-content
assign_content(device_id, media_id, display_duration, now) ==
    /\ At(now)
    /\ lastCall' = Call("assign_content", device_id, media_id, display_duration)
    /\ committed_checkins' = 0
    /\ IF ~TruthyStr(device_id) \/ ~TruthyInt(media_id)
       THEN /\ response' = Reply(400, "Device ID and Media ID required", 0, <<>>)
            /\ UNCHANGED <<tables, uploads, LAST_CONTENT_UPDATE>>
       ELSE IF ActiveAssignments(device_content, Val(device_id), Val(media_id)) # {}
       THEN /\ response' = Reply(400, "Content already assigned to this device", 0, <<>>)
            /\ UNCHANGED <<tables, uploads, LAST_CONTENT_UPDATE>>
       ELSE /\ content_seq < MaxRules
            /\ device_content' = device_content \cup
                 {Rule(content_seq + 1, Val(device_id), Val(media_id),
                       DefaultSchedule(Get(display_duration, DefaultDuration)),
                       Some(NextPlayOrder(device_content, Val(device_id))), now)}
            /\ content_seq' = content_seq + 1
            /\ update_content_timestamp(now)
            /\ response' = Reply(200, "Content assigned successfully", 0, <<>>)
            /\ UNCHANGED <<media, media_seq, devices, playback_analytics, uploads>>

\* mutant: assigned_count counts every device visited, skipped ones included
RECURSIVE AssignEachCountsVisited(_, _, _, _, _, _)
AssignEachCountsVisited(dc, seq, fetched, media_id, duration, now) ==
    IF fetched = <<>>
    THEN [dc |-> dc, seq |-> seq, assigned_count |-> 0]
    ELSE LET device_id == Head(fetched)
             exists == ActiveAssignments(dc, device_id, media_id) # {}
             dc1 == IF exists THEN dc
                    ELSE dc \cup {Rule(seq + 1, device_id, media_id,
                                       DefaultSchedule(duration),
                                       Some(NextPlayOrder(dc, device_id)), now)}
             seq1 == IF exists THEN seq ELSE seq + 1
             rest == AssignEachCountsVisited(dc1, seq1, Tail(fetched), media_id,
                                             duration, now)
         IN  [rest EXCEPT !.assigned_count = @ + 1]

\* the loop of assign_all_devices over the fetched device rows, in fetch order
RECURSIVE AssignEach(_, _, _, _, _, _)
AssignEach(dc, seq, fetched, media_id, duration, now) ==
    IF fetched = <<>>
    THEN [dc |-> dc, seq |-> seq, assigned_count |-> 0]
    ELSE LET device_id == Head(fetched)
             exists == ActiveAssignments(dc, device_id, media_id) # {}
             dc1 == IF exists THEN dc
                    ELSE dc \cup {Rule(seq + 1, device_id, media_id,
                                       DefaultSchedule(duration),
                                       Some(NextPlayOrder(dc, device_id)), now)}
             seq1 == IF exists THEN seq ELSE seq + 1
             rest == AssignEach(dc1, seq1, Tail(fetched), media_id, duration, now)
         IN  [rest EXCEPT !.assigned_count = @ + (IF exists THEN 0 ELSE 1)]

\* POST /api/assign-all-devices; fetched is the row order the SELECT returned
assign_all_devices(media_id, display_duration, fetched, now) ==
    /\ At(now)
    /\ lastCall' = Call("assign_all_devices", NULL, media_id, display_duration)
    /\ committed_checkins' = 0
    /\ IF ~TruthyInt(media_id)
       THEN /\ response' = Reply(400, "Media ID required", 0, <<>>)
            /\ UNCHANGED <<tables, uploads, LAST_CONTENT_UPDATE>>
       ELSE LET done == AssignEach(device_content, content_seq, fetched,
                                   Val(media_id),
                                   Get(display_duration, DefaultDuration), now)
            IN  /\ done.seq <= MaxRules
                /\ device_content' = done.dc
                /\ content_seq' = done.seq
                /\ update_content_timestamp(now)
                /\ response' = Reply(200, "Content assigned to {assigned_count} devices",
                                     done.assigned_count, <<>>)
                /\ UNCHANGED <<media, media_seq, devices, playback_analytics, uploads>>

\* PUT /api/media/<media_id>/toggle
toggle_media_status(media_id, is_active, now) ==
    /\ At(now)
    /\ lastCall' = Call("toggle_media_status", NULL, Some(media_id), is_active)
    /\ committed_checkins' = 0
    /\ device_content' = {IF r.media_id = media_id THEN [r EXCEPT !.is_active = is_active]
                          ELSE r : r \in device_content}
    /\ update_content_timestamp(now)
    /\ response' = Reply(200, "Media status updated", 0, <<>>)
    /\ UNCHANGED <<media, media_seq, devices, content_seq, playback_analytics, uploads>>

\* mutant: the analytics records are left in place
DeleteAnalyticsNone(pa, media_id) == pa

\* DELETE FROM playback_analytics WHERE media_id = ?
DeleteAnalytics(pa, media_id) == {a \in pa : a.media_id # Some(media_id)}

\* DELETE /api/media/<media_id>; remove_ok is whether os.remove succeeds
delete_media(media_id, remove_ok, now) ==
    /\ At(now)
    /\ lastCall' = Call("delete_media", NULL, Some(media_id), remove_ok)
    /\ committed_checkins' = 0
    /\ LET result == {m \in media : m.id = media_id}
       IN  IF result = {}
           THEN /\ response' = Reply(404, "Media not found", 0, <<>>)
                /\ UNCHANGED <<tables, uploads, LAST_CONTENT_UPDATE>>
           ELSE LET filename == (CHOOSE m \in result : TRUE).filename
                IN  /\ device_content' = {r \in device_content : r.media_id # media_id}
                    /\ playback_analytics' = DeleteAnalytics(playback_analytics, media_id)
                    /\ media' = media \ result
                    /\ update_content_timestamp(now)
                    /\ IF filename \in uploads /\ ~remove_ok
                       THEN /\ uploads' = uploads
                            /\ response' = Reply(500, "Failed to delete media", 0, <<>>)
                       ELSE /\ uploads' = uploads \ {filename}
                            /\ response' = Reply(200, "Media deleted successfully", 0, <<>>)
                    /\ UNCHANGED <<media_seq, devices, content_seq>>

\* mutant: the removal closes the gap in the play order of the device
remove_content_renumbering(assignment_id, now) ==
    /\ At(now)
    /\ lastCall' = Call("remove_content", NULL, NULL, assignment_id)
    /\ committed_checkins' = 0
    /\ device_content' =
         {IF \E g \in device_content :
                /\ g.id = assignment_id /\ g.device_id = r.device_id
                /\ g.play_order # NULL /\ r.play_order # NULL
                /\ Val(g.play_order) < Val(r.play_order)
          THEN [r EXCEPT !.play_order = Some(Val(r.play_order) - 1)]
          ELSE r : r \in {x \in device_content : x.id # assignment_id}}
    /\ update_content_timestamp(now)
    /\ response' = Reply(200, "Content assignment removed", 0, <<>>)
    /\ UNCHANGED <<media, media_seq, devices, content_seq, playback_analytics, uploads>>

\* DELETE /api/remove-content/<assignment_id>
remove_content(assignment_id, now) ==
    /\ At(now)
    /\ lastCall' = Call("remove_content", NULL, NULL, assignment_id)
    /\ committed_checkins' = 0
    /\ device_content' = {r \in device_content : r.id # assignment_id}
    /\ update_content_timestamp(now)
    /\ response' = Reply(200, "Content assignment removed", 0, <<>>)
    /\ UNCHANGED <<media, media_seq, devices, content_seq, playback_analytics, uploads>>

\* mutant: the UPDATE matches on the rule id alone
RECURSIVE ReorderEachAnyDevice(_, _, _)
ReorderEachAnyDevice(dc, device_id, content_order) ==
    IF content_order = <<>> THEN dc
    ELSE LET item == Head(content_order)
         IN  ReorderEachAnyDevice({IF r.id = item.assignment_id
                                   THEN [r EXCEPT !.play_order = item.play_order]
                                   ELSE r : r \in dc},
                                  device_id, Tail(content_order))

\* the UPDATE loop of reorder_device_content, item by item
RECURSIVE ReorderEach(_, _, _)
ReorderEach(dc, device_id, content_order) ==
    IF content_order = <<>> THEN dc
    ELSE LET item == Head(content_order)
         IN  ReorderEach({IF r.id = item.assignment_id /\ r.device_id = device_id
                          THEN [r EXCEPT !.play_order = item.play_order]
                          ELSE r : r \in dc},
                         device_id, Tail(content_order))

\* PUT /api/device/reorder-content
reorder_device_content(device_id, content_order, now) ==
    /\ At(now)
    /\ lastCall' = Call("reorder_device_content", Some(device_id), NULL, content_order)
    /\ committed_checkins' = 0
    /\ device_content' = ReorderEach(device_content, device_id, content_order)
    /\ update_content_timestamp(now)
    /\ response' = Reply(200, "Content reordered successfully", 0, <<>>)
    /\ UNCHANGED <<media, media_seq, devices, content_seq, playback_analytics, uploads>>

\* PUT /api/device-content/<assignment_id>
update_device_content(assignment_id, display_duration, now) ==
    /\ At(now)
    /\ lastCall' = Call("update_device_content", NULL, NULL, <<assignment_id, display_duration>>)
    /\ committed_checkins' = 0
    /\ device_content' = {IF r.id = assignment_id
                          THEN [r EXCEPT !.display_duration = display_duration]
                          ELSE r : r \in device_content}
    /\ response' = Reply(200, "Content updated successfully", 0, <<>>)
    /\ UNCHANGED <<media, media_seq, devices, content_seq, playback_analytics, uploads,
                   LAST_CONTENT_UPDATE>>

\* mutant: the UPDATE reaches only the oldest rule of the media
update_media_schedule_first_rule(media_id, data, now) ==
    /\ At(now)
    /\ lastCall' = Call("update_media_schedule", NULL, Some(media_id), data)
    /\ committed_checkins' = 0
    /\ LET days_list == IF data.days_of_week = NULL \/ Val(data.days_of_week) = <<>>
                        THEN <<"all">> ELSE Val(data.days_of_week)
       IN  device_content' =
             {IF r.media_id = media_id
                 /\ \A o \in device_content : o.media_id = media_id => r.id <= o.id
              THEN [r EXCEPT !.days_of_week = Some(days_list),
                             !.display_duration =
                                 Some(Get(data.display_duration, DefaultDuration)),
                             !.start_time = data.start_time, !.end_time = data.end_time,
                             !.start_date = data.start_date, !.end_date = data.end_date]
              ELSE r : r \in device_content}
    /\ update_content_timestamp(now)
    /\ response' = Reply(200, "Schedule updated successfully", 0, <<>>)
    /\ UNCHANGED <<media, media_seq, devices, content_seq, playback_analytics, uploads>>

\* PUT /api/media/<media_id>/schedule; data holds the request's keys after .get()
update_media_schedule(media_id, data, now) ==
    /\ At(now)
    /\ lastCall' = Call("update_media_schedule", NULL, Some(media_id), data)
    /\ committed_checkins' = 0
    /\ LET days_list == IF data.days_of_week = NULL \/ Val(data.days_of_week) = <<>>
                        THEN <<"all">> ELSE Val(data.days_of_week)
       IN  device_content' =
             {IF r.media_id = media_id
              THEN [r EXCEPT !.days_of_week = Some(days_list),
                             !.display_duration =
                                 Some(Get(data.display_duration, DefaultDuration)),
                             !.start_time = data.start_time, !.end_time = data.end_time,
                             !.start_date = data.start_date, !.end_date = data.end_date]
              ELSE r : r \in device_content}
    /\ update_content_timestamp(now)
    /\ response' = Reply(200, "Schedule updated successfully", 0, <<>>)
    /\ UNCHANGED <<media, media_seq, devices, content_seq, playback_analytics, uploads>>

\* -------------------------------------------------------------------- upload
\* file names a browser may post
FileNames == {"logo.png", "promo.mp4", "notes.txt"}
\* filename.rsplit('.', 1)[1].lower()
Extension(filename) ==
    CASE filename = "logo.png" -> "png"
      [] filename = "promo.mp4" -> "mp4"
      [] OTHER -> "txt"
allowed_file(filename) ==
    Extension(filename) \in {"png", "jpg", "jpeg", "gif", "mp4", "mov", "avi", "webm", "mkv"}
\* 'image' if filename.lower().endswith(('png', 'jpg', 'jpeg', 'gif')) else 'video'
FileType(filename) ==
    IF Extension(filename) \in {"png", "jpg", "jpeg", "gif"} THEN "image" ELSE "video"

\* the columns upload_file fills from the scheduling JSON
UploadSchedule(schedule, file_type) ==
    LET video_duration == schedule.video_duration
        days_list == IF schedule.days_of_week = NULL \/ Val(schedule.days_of_week) = <<>>
                     THEN <<"all">> ELSE Val(schedule.days_of_week)
        requested == Get(schedule.display_duration, DefaultDuration)
        display_duration ==
            IF TruthyInt(video_duration) /\ file_type = "video"
            THEN Max({requested, Val(video_duration)}) ELSE requested
    IN  [start_date |-> schedule.start_date, end_date |-> schedule.end_date,
         days_of_week |-> Some(days_list), display_duration |-> Some(display_duration),
         video_duration |-> video_duration,
         start_time |-> schedule.start_time, end_time |-> schedule.end_time]

\* the loop of upload_file over the fetched device rows ('all' devices)
RECURSIVE UploadEach(_, _, _, _, _, _)
UploadEach(dc, seq, fetched, media_id, sched, now) ==
    IF fetched = <<>> THEN [dc |-> dc, seq |-> seq]
    ELSE UploadEach(dc \cup {Rule(seq + 1, Head(fetched), media_id, sched,
                                  Some(NextPlayOrder(dc, Head(fetched))), now)},
                    seq + 1, Tail(fetched), media_id, sched, now)

\* POST /upload; scheduling is the parsed 'scheduling' form field or NULL,
\* save_ok whether file.save succeeds, fetched the row order of the device SELECT
upload_file(original, scheduling, save_ok, fetched, now) ==
    /\ At(now)
    /\ lastCall' = Call("upload_file", NULL, NULL, <<original, scheduling>>)
    /\ committed_checkins' = 0
    /\ IF ~allowed_file(original)
       THEN /\ response' = Reply(400, "Invalid file type", 0, <<>>)
            /\ UNCHANGED <<tables, uploads, LAST_CONTENT_UPDATE>>
       ELSE IF ~save_ok
       THEN /\ response' = Reply(500, "Failed to save file to disk", 0, <<>>)
            /\ UNCHANGED <<tables, uploads, LAST_CONTENT_UPDATE>>
       ELSE LET unique_filename == <<now, original>>
                file_type == FileType(original)
                media_id == media_seq + 1
                video_duration == IF scheduling = NULL THEN NULL
                                  ELSE Val(scheduling).video_duration
                assignment == IF scheduling = NULL THEN NULL
                              ELSE Val(scheduling).device_assignment
                targets == IF ~TruthyStr(assignment) THEN <<>>
                           ELSE IF Val(assignment) = "all" THEN fetched
                           ELSE <<Val(assignment)>>
                sched == IF scheduling = NULL THEN DefaultSchedule(DefaultDuration)
                         ELSE UploadSchedule(Val(scheduling), file_type)
                done == UploadEach(device_content, content_seq, targets, media_id,
                                   sched, now)
            IN  /\ media_seq < MaxMedia
                /\ done.seq <= MaxRules
                /\ uploads' = uploads \cup {unique_filename}
                /\ media' = media \cup {[id |-> media_id, filename |-> unique_filename,
                                         file_type |-> file_type,
                                         video_duration |-> video_duration]}
                /\ media_seq' = media_id
                /\ device_content' = done.dc
                /\ content_seq' = done.seq
                /\ update_content_timestamp(now)
                /\ response' = Reply(200, "File uploaded and scheduled successfully", 0, <<>>)
                /\ UNCHANGED <<devices, playback_analytics>>

\* ------------------------------------------------------------ device registry
\* mutant: the check-in replaces the device row (INSERT OR REPLACE)
RegisterReplacing(dv, device_id, ip_address, now) ==
    {d \in dv : d.device_id # device_id} \cup
    {[device_id |-> device_id, device_name |-> GeneratedName(device_id),
      custom_name |-> NULL, location |-> NULL, last_checkin |-> Some(now),
      is_active |-> TRUE, ip_address |-> Some(ip_address)]}

\* mutant: the check-in marks every other device as not alive
RegisterExclusive(dv, device_id, ip_address, now) ==
    {IF d.device_id = device_id
     THEN [d EXCEPT !.last_checkin = Some(now), !.is_active = TRUE,
                    !.ip_address = Some(ip_address)]
     ELSE [d EXCEPT !.is_active = FALSE] : d \in dv}
    \cup {[device_id |-> device_id, device_name |-> GeneratedName(device_id),
           custom_name |-> NULL, location |-> NULL, last_checkin |-> Some(now),
           is_active |-> TRUE, ip_address |-> Some(ip_address)] :
             x \in {y \in {device_id} : \A d \in dv : d.device_id # y}}

\* mutant: the UPDATE of the check-in has no WHERE clause
RegisterStampsAll(dv, device_id, ip_address, now) ==
    IF \E d \in dv : d.device_id = device_id
    THEN {[d EXCEPT !.last_checkin = Some(now), !.is_active = TRUE,
                    !.ip_address = Some(ip_address)] : d \in dv}
    ELSE dv \cup {[device_id |-> device_id, device_name |-> GeneratedName(device_id),
                   custom_name |-> NULL, location |-> NULL, last_checkin |-> Some(now),
                   is_active |-> TRUE, ip_address |-> Some(ip_address)]}

\* the check-in at the head of get_playlist
register_device_checkin(dv, device_id, ip_address, now) ==
    IF \E d \in dv : d.device_id = device_id
    THEN {IF d.device_id = device_id
          THEN [d EXCEPT !.last_checkin = Some(now), !.is_active = TRUE,
                         !.ip_address = Some(ip_address)]
          ELSE d : d \in dv}
    ELSE dv \cup {[device_id |-> device_id, device_name |-> GeneratedName(device_id),
                   custom_name |-> NULL, location |-> NULL, last_checkin |-> Some(now),
                   is_active |-> TRUE, ip_address |-> Some(ip_address)]}

\* PUT /api/device/<device_id>
update_device(device_id, custom_name, location, now) ==
    /\ At(now)
    /\ lastCall' = Call("update_device", Some(device_id), NULL, <<custom_name, location>>)
    /\ committed_checkins' = 0
    /\ devices' = {IF d.device_id = device_id
                   THEN [d EXCEPT !.custom_name = Some(Get(custom_name, "")),
                                  !.location = Some(Get(location, ""))]
                   ELSE d : d \in devices}
    /\ response' = Reply(200, "Device updated successfully", 0, <<>>)
    /\ UNCHANGED <<media, media_seq, device_content, content_seq, playback_analytics,
                   uploads, LAST_CONTENT_UPDATE>>

\* add_test_devices.py: INSERT OR IGNORE of the two spoof devices
test_devices ==
    {[device_id |-> "SPOOF001", device_name |-> <<"SPOOF-DEVICE-001">>,
      ip_address |-> "192.168.1.201"],
     [device_id |-> "SPOOF002", device_name |-> <<"SPOOF-DEVICE-002">>,
      ip_address |-> "192.168.1.202"]}

add_test_devices(now) ==
    /\ At(now)
    /\ lastCall' = Call("add_test_devices", NULL, NULL, NULL)
    /\ committed_checkins' = 0
    /\ devices' = devices \cup
         {[device_id |-> t.device_id, device_name |-> t.device_name, custom_name |-> NULL,
           location |-> NULL, last_checkin |-> Some(now), is_active |-> TRUE,
           ip_address |-> Some(t.ip_address)] :
            t \in {x \in test_devices : \A d \in devices : d.device_id # x.device_id}}
    /\ response' = Reply(0, "Done!", 0, <<>>)
    /\ UNCHANGED <<media, media_seq, device_content, content_seq, playback_analytics,
                   uploads, LAST_CONTENT_UPDATE>>

\* ------------------------------------------------------------------ resolver
\* SERVER_IP = get_server_ip()
SERVER_IP == "localhost"

\* mutant: the SELECT does not filter on is_active
PlaylistRowsAnyLiveness(dc, md, device_id, today) ==
    {row \in [dc : dc, m : md] :
        /\ row.dc.media_id = row.m.id
        /\ row.dc.device_id = device_id
        /\ (row.dc.start_date = NULL \/ Val(row.dc.start_date) <= today)
        /\ (row.dc.end_date = NULL \/ Val(row.dc.end_date) >= today)}

\* the rows of get_playlist's SELECT: device_content JOIN media, the device's
\* active rules whose date bounds admit today
PlaylistRows(dc, md, device_id, today) ==
    {row \in [dc : dc, m : md] :
        /\ row.dc.media_id = row.m.id
        /\ row.dc.device_id = device_id
        /\ row.dc.is_active
        /\ (row.dc.start_date = NULL \/ Val(row.dc.start_date) <= today)
        /\ (row.dc.end_date = NULL \/ Val(row.dc.end_date) >= today)}

\* mutant: NULL sorts after every value
SqlLessNullLast(a, b) == IF b = NULL THEN a # NULL ELSE a # NULL /\ Val(a) < Val(b)

\* SQLite's ascending order on a nullable INTEGER column: NULL comes first
SqlLess(a, b) == IF a = NULL THEN b # NULL ELSE b # NULL /\ Val(a) < Val(b)

\* mutant: ORDER BY dc.play_order alone
OrderedBeforeByPlayOrder(r1, r2) == SqlLess(r1.play_order, r2.play_order)

\* ORDER BY dc.play_order, dc.created_at puts r1 strictly before r2
OrderedBefore(r1, r2) ==
    \/ SqlLess(r1.play_order, r2.play_order)
    \/ r1.play_order = r2.play_order /\ r1.created_at < r2.created_at

\* cursor.fetchall(): the row sequences the ORDER BY allows (rows equal in both
\* keys come in an order SQL leaves open)
FetchAll(rows) ==
    {s \in Orderings(rows) :
        \A i, j \in 1..Cardinality(rows) : i < j => ~OrderedBefore(s[j].dc, s[i].dc)}

\* mutant: 'weekdays' is taken to run Monday to Saturday
day_matches_six(days_json, current_day) ==
    LET days_of_week == IF days_json # NULL THEN Val(days_json) ELSE <<"all">>
        has(token) == \E i \in DOMAIN days_of_week : days_of_week[i] = token
    IN  \/ has("all")
        \/ has(current_day)
        \/ current_day \in {"mon", "tue", "wed", "thu", "fri", "sat"} /\ has("weekdays")
        \/ current_day \in {"sat", "sun"} /\ has("weekends")

\* the column holds json.dumps of a token list, kept here as the list
day_matches(days_json, current_day) ==
    LET days_of_week == IF days_json # NULL THEN Val(days_json) ELSE <<"all">>
        has(token) == \E i \in DOMAIN days_of_week : days_of_week[i] = token
    IN  \/ has("all")
        \/ has(current_day)
        \/ current_day \in {"mon", "tue", "wed", "thu", "fri"} /\ has("weekdays")
        \/ current_day \in {"sat", "sun"} /\ has("weekends")

\* time.fromisoformat raises on this row
TimeRaises(start_time_str, end_time_str) ==
    /\ TruthyStr(start_time_str) /\ TruthyStr(end_time_str)
    /\ \/ fromisoformat(Val(start_time_str)) = ValueError
       \/ fromisoformat(Val(end_time_str)) = ValueError

\* mutant: the end of the window is exclusive
time_matches_before_end(start_time_str, end_time_str, current_time) ==
    IF TruthyStr(start_time_str) /\ TruthyStr(end_time_str)
    THEN /\ fromisoformat(Val(start_time_str)) <= current_time
         /\ current_time < fromisoformat(Val(end_time_str))
    ELSE TRUE

\* the time check of get_playlist: time objects compare to the microsecond
time_matches(start_time_str, end_time_str, current_time) ==
    IF TruthyStr(start_time_str) /\ TruthyStr(end_time_str)
    THEN /\ fromisoformat(Val(start_time_str)) <= current_time
         /\ current_time <= fromisoformat(Val(end_time_str))
    ELSE TRUE

PlaylistEntry(row) ==
    [id |-> row.dc.media_id, filename |-> row.m.filename, file_type |-> row.m.file_type,
     display_duration |-> row.dc.display_duration, play_order |-> row.dc.play_order,
     url |-> <<"http://", SERVER_IP, ":5000/uploads/", row.m.filename>>]

\* the for-loop of get_playlist over the fetched rows
RECURSIVE BuildPlaylist(_, _, _)
BuildPlaylist(fetched, current_day, current_time) ==
    IF fetched = <<>> THEN <<>>
    ELSE LET row == Head(fetched)
             rest == BuildPlaylist(Tail(fetched), current_day, current_time)
         IN  IF /\ day_matches(row.dc.days_of_week, current_day)
                /\ time_matches(row.dc.start_time, row.dc.end_time, current_time)
             THEN <<PlaylistEntry(row)>> \o rest
             ELSE rest

\* mutant: the check-in shares the resolution's transaction and is lost with it
CheckinRolledBack(raised) == ~raised

\* whether the check-in is durable when the handler returns: it is committed
\* (conn.commit()) before the playlist query runs, so an exception raised by
\* the resolution does not roll it back
CheckinCommitted(raised) == TRUE

\* GET /api/playlist/<device_id>; today and current_time are datetime.now(),
\* fetched the row order the SELECT returned
get_playlist(device_id, remote_addr, today, current_time, fetched, now) ==
    /\ At(now)
    /\ fetched \in FetchAll(PlaylistRows(device_content, media, device_id, today))
    /\ lastCall' = Call("get_playlist", Some(device_id), NULL,
                        [remote_addr |-> remote_addr, today |-> today,
                         current_time |-> current_time])
    /\ LET raised == \E i \in DOMAIN fetched :
                        TimeRaises(fetched[i].dc.start_time, fetched[i].dc.end_time)
       IN  /\ IF CheckinCommitted(raised)
              THEN /\ devices' = register_device_checkin(devices, device_id, remote_addr, now)
                   /\ committed_checkins' = 1
              ELSE /\ devices' = devices
                   /\ committed_checkins' = 0
           /\ response' =
                IF raised THEN Reply(500, "Failed to get playlist", 0, <<>>)
                ELSE Reply(200, "", 0,
                           BuildPlaylist(fetched, strftime_a(today), current_time))
    /\ UNCHANGED <<media, media_seq, device_content, content_seq, playback_analytics,
                   uploads, LAST_CONTENT_UPDATE>>

\* ---------------------------------------------------------------- environment
\* a playback client's analytics record (its media_id column is nullable)
record_playback(device_id, media_id, now) ==
    /\ At(now)
    /\ lastCall' = Call("record_playback", Some(device_id), media_id, NULL)
    /\ committed_checkins' = 0
    /\ playback_analytics' = playback_analytics \cup
                               {[device_id |-> device_id, media_id |-> media_id]}
    /\ response' = Reply(0, "", 0, <<>>)
    /\ UNCHANGED <<media, media_seq, devices, device_content, content_seq, uploads,
                   LAST_CONTENT_UPDATE>>

\* ------------------------------------------------- the assignment state machine
MediaIds == 1..MaxMedia
RuleIds == 1..MaxRules
\* request values for an optional id: absent, or one of ids
Optional(ids) == {NULL} \cup {Some(x) : x \in ids}

\* the poll instant and address used where the schedule is not at issue
Noon == HMS(12, 0, 0)
Addr == "10.0.0.5"
\* the device the single-device state machines follow
Lobby == "ANDROID-TV-LOBBY"

\* a scheduling payload with only its device_assignment set
PlainSchedule(device_assignment) ==
    [device_assignment |-> device_assignment, days_of_week |-> NULL,
     display_duration |-> NULL, video_duration |-> NULL, start_date |-> NULL,
     end_date |-> NULL, start_time |-> NULL, end_time |-> NULL]

Poll ==
    \E d \in DeviceIds :
      \E fetched \in FetchAll(PlaylistRows(device_content, media, d, 0)) :
        get_playlist(d, Addr, 0, Noon, fetched, clock)

Assign ==
    \E d \in Optional(DeviceIds), m \in Optional(MediaIds) : assign_content(d, m, NULL, clock)

AssignAll ==
    \E m \in Optional(MediaIds) :
      \E fetched \in Orderings(ActiveDevices(devices)) : assign_all_devices(m, NULL, fetched, clock)

Toggle == \E m \in MediaIds, is_active \in BOOLEAN : toggle_media_status(m, is_active, clock)

DeleteMedia == \E m \in MediaIds, remove_ok \in BOOLEAN : delete_media(m, remove_ok, clock)

Remove == \E id \in RuleIds : remove_content(id, clock)

Reorder ==
    \E d \in DeviceIds, id \in RuleIds, k \in {1, 3} :
      reorder_device_content(d, <<[assignment_id |-> id, play_order |-> Some(k)]>>, clock)

Upload ==
    \E scheduling \in {NULL, Some(PlainSchedule(Some("all")))} :
      \E fetched \in Orderings(ActiveDevices(devices)) :
        upload_file("logo.png", scheduling, TRUE, fetched, clock)

Playback == \E m \in MediaIds : record_playback(Lobby, Some(m), clock)

Next ==
    \/ Poll
    \/ Assign
    \/ AssignAll
    \/ Toggle
    \/ Upload

Spec == Init /\ [][Next]_vars

\* ----------------------------------------------- the play-order state machine
\* the clock readings a request may see: this second or the next
Instants == {clock, clock + 1}

\* the play_order pairs a reorder request may carry (JSON null included)
OrderValues == {<<Some(3), Some(1)>>, <<Some(1), Some(1)>>, <<NULL, Some(1)>>, <<NULL, NULL>>}

UploadToLobby ==
    \E now \in Instants :
      upload_file("logo.png", Some(PlainSchedule(Some(Lobby))), TRUE, <<>>, now)

ReorderPair ==
    \E r1, r2 \in RuleIds, k \in OrderValues :
      /\ r1 # r2
      /\ reorder_device_content(Lobby, <<[assignment_id |-> r1, play_order |-> k[1]],
                                         [assignment_id |-> r2, play_order |-> k[2]]>>, clock)

PollLobby ==
    \E fetched \in FetchAll(PlaylistRows(device_content, media, Lobby, 0)) :
      get_playlist(Lobby, Addr, 0, Noon, fetched, clock)

NextOrder ==
    \/ UploadToLobby
    \/ ReorderPair
    \/ PollLobby

SpecOrder == Init /\ [][NextOrder]_vars

\* ------------------------------------------- the device-registry state machine
\* addresses a device may poll from
Addrs == {Addr, "10.0.0.9"}

\* the metadata an administrator may send: either key may be missing
MetaValues == {<<Some("Lobby TV"), NULL>>, <<NULL, Some("Hall")>>}

\* a scheduling payload for one device with a time window
TimedSchedule(device_id, start_time, end_time) ==
    [PlainSchedule(Some(device_id)) EXCEPT !.start_time = Some(start_time),
                                           !.end_time = Some(end_time)]

PollDevice ==
    \E d \in DeviceIds, a \in Addrs, now \in Instants :
      \E fetched \in FetchAll(PlaylistRows(device_content, media, d, 0)) :
        get_playlist(d, a, 0, Noon, fetched, now)

UpdateMeta ==
    \E d \in DeviceIds, meta \in MetaValues : update_device(d, meta[1], meta[2], clock)

AddTestDevices == add_test_devices(clock)

\* an upload whose start_time is not an ISO time
UploadBadTime ==
    upload_file("logo.png", Some(TimedSchedule(Lobby, "9am", "17:00")), TRUE, <<>>, clock)

NextDevice ==
    \/ PollDevice
    \/ UpdateMeta
    \/ AddTestDevices
    \/ UploadBadTime

SpecDevice == Init /\ [][NextDevice]_vars

\* ------------------------------------------------ the media-library state machine
AssignToLobby == \E m \in MediaIds : assign_content(Some(Lobby), Some(m), NULL, clock)

UploadForLobby ==
    upload_file("logo.png", Some(PlainSchedule(Some(Lobby))), TRUE, <<>>, clock)

NextMedia ==
    \/ UploadForLobby
    \/ AssignToLobby
    \/ Playback
    \/ DeleteMedia

SpecMedia == Init /\ [][NextMedia]_vars

\* -------------------------------------------------- the time-window state machine
\* window bounds an administrator may enter
WindowTimes == {"09:00", "17:00"}

\* instants of the day at which the device polls
PollTimes == {HMS(8, 59, 0), HMS(8, 59, 59), HMS(9, 0, 0), HMS(9, 0, 30), Noon,
              HMS(17, 0, 0), HMS(17, 0, 30), HMS(17, 1, 0)}

UploadWindow ==
    \E start_time, end_time \in WindowTimes :
      upload_file("logo.png", Some(TimedSchedule(Lobby, start_time, end_time)), TRUE,
                  <<>>, clock)

PollAt ==
    \E current_time \in PollTimes :
      \E fetched \in FetchAll(PlaylistRows(device_content, media, Lobby, 0)) :
        get_playlist(Lobby, Addr, 0, current_time, fetched, clock)

NextWindow ==
    \/ UploadWindow
    \/ PollAt

SpecWindow == Init /\ [][NextWindow]_vars

\* ------------------------------------------------------ the weekday state machine
\* weekday lists an administrator may send with an upload
DayLists == {<<"weekdays">>, <<"all">>, <<"weekends">>, <<"wed">>}

\* the days on which the device polls: Monday (0) to Sunday (6)
PollDays == 0..6

TenOClock == HMS(10, 0, 0)

\* an upload for the lobby device with a weekday list, with or without the
\* window 08:00-20:00
UploadDays ==
    \E days \in DayLists, windowed \in BOOLEAN :
      LET plain == [PlainSchedule(Some(Lobby)) EXCEPT !.days_of_week = Some(days)]
          sched == IF windowed
                   THEN [plain EXCEPT !.start_time = Some("08:00"), !.end_time = Some("20:00")]
                   ELSE plain
      IN  upload_file("logo.png", Some(sched), TRUE, <<>>, clock)

PollOnDay ==
    \E today \in PollDays :
      \E fetched \in FetchAll(PlaylistRows(device_content, media, Lobby, today)) :
        get_playlist(Lobby, Addr, today, TenOClock, fetched, clock)

NextDay ==
    \/ UploadDays
    \/ PollOnDay

SpecDay == Init /\ [][NextDay]_vars

\* ------------------------------------------- the refactored build's upload path
\* ScheduleService.create_device_assignment: the INSERT names no play_order
\* (column default 0) and stores json.dumps of the weekday list as sent, ['all']
\* only when the key is missing
create_device_assignment(dc, seq, device_id, media_id, schedule_data, now) ==
    LET days == IF schedule_data.days_of_week = NULL THEN <<"all">>
                ELSE Val(schedule_data.days_of_week)
        sched == [start_date |-> schedule_data.start_date,
                  end_date |-> schedule_data.end_date,
                  days_of_week |-> Some(days),
                  display_duration |->
                      Some(Get(schedule_data.display_duration, DefaultDuration)),
                  video_duration |-> schedule_data.video_duration,
                  start_time |-> schedule_data.start_time,
                  end_time |-> schedule_data.end_time]
    IN  dc \cup {Rule(seq + 1, device_id, media_id, sched, Some(0), now)}

\* the loop of the refactored upload_file over its target devices
RECURSIVE CreateEach(_, _, _, _, _, _)
CreateEach(dc, seq, targets, media_id, schedule_data, now) ==
    IF targets = <<>> THEN [dc |-> dc, seq |-> seq]
    ELSE CreateEach(create_device_assignment(dc, seq, Head(targets), media_id,
                                             schedule_data, now),
                    seq + 1, Tail(targets), media_id, schedule_data, now)

\* POST /upload of broken_production_app.py (it keeps no content marker)
refactored_upload_file(original, scheduling, save_ok, fetched, now) ==
    /\ At(now)
    /\ lastCall' = Call("refactored_upload_file", NULL, NULL, <<original, scheduling>>)
    /\ committed_checkins' = 0
    /\ IF ~allowed_file(original)
       THEN /\ response' = Reply(400, "Invalid file or file type", 0, <<>>)
            /\ UNCHANGED <<tables, uploads, LAST_CONTENT_UPDATE>>
       ELSE IF ~save_ok
       THEN /\ response' = Reply(500, "Failed to save file to disk", 0, <<>>)
            /\ UNCHANGED <<tables, uploads, LAST_CONTENT_UPDATE>>
       ELSE LET unique_filename == <<now, original>>
                media_id == media_seq + 1
                assignment == IF scheduling = NULL THEN NULL
                              ELSE Val(scheduling).device_assignment
                targets == IF ~TruthyStr(assignment) THEN <<>>
                           ELSE IF Val(assignment) = "all" THEN fetched
                           ELSE <<Val(assignment)>>
                done == IF scheduling = NULL
                        THEN [dc |-> device_content, seq |-> content_seq]
                        ELSE CreateEach(device_content, content_seq, targets, media_id,
                                        Val(scheduling), now)
            IN  /\ media_seq < MaxMedia
                /\ done.seq <= MaxRules
                /\ uploads' = uploads \cup {unique_filename}
                /\ media' = media \cup {[id |-> media_id, filename |-> unique_filename,
                                         file_type |-> FileType(original),
                                         video_duration |-> NULL]}
                /\ media_seq' = media_id
                /\ device_content' = done.dc
                /\ content_seq' = done.seq
                /\ response' = Reply(200, "File uploaded and scheduled successfully", 0, <<>>)
                /\ UNCHANGED <<devices, playback_analytics, LAST_CONTENT_UPDATE>>

\* ----------------------------------------- the weekday-default state machine
\* what a request may carry for days_of_week when the administrator picked no
\* day: no key, or an empty list
NoDays == {NULL, Some(<<>>)}

\* request bodies of update_media_schedule with no day picked
NoDaysUpdate(days) ==
    [days_of_week |-> days, display_duration |-> NULL, start_time |-> NULL,
     end_time |-> NULL, start_date |-> NULL, end_date |-> NULL]

UploadNoDays ==
    \E days \in NoDays :
      upload_file("logo.png",
                  Some([PlainSchedule(Some(Lobby)) EXCEPT !.days_of_week = days]),
                  TRUE, <<>>, clock)

RefactoredUploadNoDays ==
    \E days \in NoDays :
      refactored_upload_file("logo.png",
                             Some([PlainSchedule(Some(Lobby)) EXCEPT !.days_of_week = days]),
                             TRUE, <<>>, clock)

UpdateNoDays ==
    \E m \in MediaIds, days \in NoDays : update_media_schedule(m, NoDaysUpdate(days), clock)

NextNoDays ==
    \/ UploadNoDays
    \/ RefactoredUploadNoDays
    \/ AssignToLobby
    \/ UpdateNoDays
    \/ PollOnDay

SpecNoDays == Init /\ [][NextNoDays]_vars

\* ---------------------------------------------- the schedule-update state machine
\* request bodies of update_media_schedule: every key missing, an empty weekday
\* list with a duration, and a full schedule
ScheduleUpdates ==
    {[days_of_week |-> NULL, display_duration |-> NULL, start_time |-> NULL,
      end_time |-> NULL, start_date |-> NULL, end_date |-> NULL],
     [days_of_week |-> Some(<<>>), display_duration |-> Some(30), start_time |-> NULL,
      end_time |-> NULL, start_date |-> NULL, end_date |-> NULL],
     [days_of_week |-> Some(<<"weekends">>), display_duration |-> Some(30),
      start_time |-> Some("09:00"), end_time |-> Some("17:00"),
      start_date |-> Some(1), end_date |-> Some(2)]}

\* an assignment of an uploaded media to the other device
AssignExisting ==
    \E m \in {x.id : x \in media} : assign_content(Some("SPOOF001"), Some(m), NULL, clock)

SwitchOff == \E m \in MediaIds : toggle_media_status(m, FALSE, clock)

UpdateSchedule ==
    \E m \in MediaIds, data \in ScheduleUpdates : update_media_schedule(m, data, clock)

NextSchedule ==
    \/ UploadForLobby
    \/ AssignExisting
    \/ SwitchOff
    \/ UpdateSchedule

SpecSchedule == Init /\ [][NextSchedule]_vars

\* ------------------------------------------------------ the reorder state machine
ReorderOn ==
    \E d \in DeviceIds, r1, r2 \in RuleIds, k \in OrderValues :
      /\ r1 # r2
      /\ reorder_device_content(d, <<[assignment_id |-> r1, play_order |-> k[1]],
                                     [assignment_id |-> r2, play_order |-> k[2]]>>, clock)

NextReorder ==
    \/ UploadForLobby
    \/ AssignExisting
    \/ ReorderOn

SpecReorder == Init /\ [][NextReorder]_vars

\* ------------------------------------------------------- the removal state machine
NextRemove ==
    \/ UploadForLobby
    \/ AssignExisting
    \/ Playback
    \/ Remove

SpecRemove == Init /\ [][NextRemove]_vars

\* ------------------------------------------------ the content-marker state machine
\* every request reads a later clock than the one before it, up to the horizon
LaterInstant == IF clock < MaxClock THEN clock + 1 ELSE MaxClock

TimedUpload ==
    upload_file("logo.png", Some(PlainSchedule(Some(Lobby))), TRUE, <<>>, LaterInstant)

TimedAssign ==
    \E m \in {x.id : x \in media} :
      assign_content(Some("SPOOF001"), Some(m), NULL, LaterInstant)

TimedAssignAll ==
    \E m \in {x.id : x \in media} :
      \E fetched \in Orderings(ActiveDevices(devices)) :
        assign_all_devices(Some(m), NULL, fetched, LaterInstant)

TimedAddDevices == add_test_devices(LaterInstant)

TimedUpdateSchedule ==
    \E m \in MediaIds :
      update_media_schedule(m, [days_of_week |-> Some(<<"weekends">>),
                                display_duration |-> Some(30), start_time |-> NULL,
                                end_time |-> NULL, start_date |-> NULL,
                                end_date |-> NULL], LaterInstant)

TimedUpdateDuration ==
    \E id \in RuleIds : update_device_content(id, Some(30), LaterInstant)

TimedReorder ==
    \E id \in RuleIds :
      reorder_device_content(Lobby, <<[assignment_id |-> id, play_order |-> Some(3)]>>,
                             LaterInstant)

TimedRemove == \E id \in RuleIds : remove_content(id, LaterInstant)

TimedToggle == \E m \in MediaIds : toggle_media_status(m, FALSE, LaterInstant)

TimedDelete == \E m \in MediaIds : delete_media(m, TRUE, LaterInstant)

NextMarker ==
    \/ TimedUpload
    \/ TimedAssign
    \/ TimedAssignAll
    \/ TimedAddDevices
    \/ TimedUpdateSchedule
    \/ TimedUpdateDuration
    \/ TimedReorder
    \/ TimedRemove
    \/ TimedToggle
    \/ TimedDelete

SpecMarker == Init /\ [][NextMarker]_vars

\* --------------------------------------------- the request-validation state machine
\* what a request may carry for device_id and media_id: no key, a falsy value,
\* or an id (media 1 and 2 may or may not have a record)
RequestDevices == {NULL, Some(""), Some(Lobby), Some("SPOOF001")}
RequestMedia == {NULL, Some(0)} \cup {Some(m) : m \in MediaIds}

AssignRequest ==
    \E d \in RequestDevices, m \in RequestMedia : assign_content(d, m, NULL, clock)

AssignAllRequest ==
    \E m \in RequestMedia :
      \E fetched \in Orderings(ActiveDevices(devices)) :
        assign_all_devices(m, NULL, fetched, clock)

ReorderOne ==
    \E id \in RuleIds :
      reorder_device_content(Lobby, <<[assignment_id |-> id, play_order |-> Some(3)]>>, clock)

NextRequests ==
    \/ AssignRequest
    \/ AssignAllRequest
    \/ AddTestDevices
    \/ UploadForLobby
    \/ Remove
    \/ ReorderOne

SpecRequests == Init /\ [][NextRequests]_vars

\* ------------------------------------------------ requests that overlap in time
\* get_playlist statement by statement, on server thread t. Each statement is
\* one SQLite statement or transaction; other threads' requests may commit
\* between two of them.

\* mutant: the rows are iterated lazily and a row whose rule has been deleted
\* in the meantime is not delivered
fetch_lazily(cursor_rows, dc_now) ==
    SelectSeq(cursor_rows, LAMBDA row : \E r \in dc_now : r.id = row.dc.id)

\* cursor.fetchall(): the whole result of the SELECT, as read by that statement
fetchall(cursor_rows, dc_now) == cursor_rows

\* the check-in and its commit
playlist_checkin(t, device_id, remote_addr, today, current_time) ==
    /\ inflight[t].pc = "idle"
    /\ devices' = register_device_checkin(devices, device_id, remote_addr, clock)
    /\ inflight' = [inflight EXCEPT ![t] =
                      [Idle EXCEPT !.pc = "checked_in", !.device_id = device_id,
                                   !.remote_addr = remote_addr, !.today = today,
                                   !.current_time = current_time]]
    /\ UNCHANGED <<media, media_seq, device_content, content_seq, playback_analytics,
                   uploads, LAST_CONTENT_UPDATE, clock, lastCall, response,
                   committed_checkins, supervisor>>

\* the SELECT over device_content JOIN media: one statement, one state of the
\* store (kept in store to compare the reply against)
playlist_select(t, fetched) ==
    /\ inflight[t].pc = "checked_in"
    /\ fetched \in FetchAll(PlaylistRows(device_content, media, inflight[t].device_id,
                                         inflight[t].today))
    /\ inflight' = [inflight EXCEPT ![t].pc = "selected", ![t].rows = fetched,
                                    ![t].store = [dc |-> device_content, md |-> media]]
    /\ UNCHANGED <<media, media_seq, devices, device_content, content_seq,
                   playback_analytics, uploads, LAST_CONTENT_UPDATE, clock, lastCall,
                   response, committed_checkins, supervisor>>

\* the loop over the fetched rows and the reply
playlist_return(t) ==
    /\ inflight[t].pc = "selected"
    /\ LET rows == fetchall(inflight[t].rows, device_content)
           raised == \E i \in DOMAIN rows :
                        TimeRaises(rows[i].dc.start_time, rows[i].dc.end_time)
       IN  response' =
             IF raised THEN Reply(500, "Failed to get playlist", 0, <<>>)
             ELSE Reply(200, "", 0,
                        BuildPlaylist(rows, strftime_a(inflight[t].today),
                                      inflight[t].current_time))
    /\ lastCall' = Call("get_playlist", Some(inflight[t].device_id), NULL,
                        [remote_addr |-> inflight[t].remote_addr,
                         today |-> inflight[t].today,
                         current_time |-> inflight[t].current_time])
    /\ committed_checkins' = 1
    /\ inflight' = [inflight EXCEPT ![t] = Idle]
    /\ UNCHANGED <<media, media_seq, devices, device_content, content_seq,
                   playback_analytics, uploads, LAST_CONTENT_UPDATE, clock, supervisor>>

\* ------------------------------------- a resolve overlapped by administrator calls
ResolveBegin == playlist_checkin(1, Lobby, Addr, 0, Noon)

ResolveSelect ==
    \E fetched \in FetchAll(PlaylistRows(device_content, media, Lobby, 0)) :
      playlist_select(1, fetched)

ResolveReturn == playlist_return(1)

\* assign to the polling device a media file that exists
AssignStored ==
    \E m \in {x.id : x \in media} : assign_content(Some(Lobby), Some(m), NULL, clock)

RemoveFirst == remove_content(1, clock)

SwitchOffFirst == toggle_media_status(1, FALSE, clock)

ReorderSecond ==
    reorder_device_content(Lobby, <<[assignment_id |-> 2, play_order |-> Some(0)]>>, clock)

DeleteSecond == delete_media(2, TRUE, clock)

NextOverlap ==
    \/ ResolveBegin
    \/ ResolveSelect
    \/ ResolveReturn
    \/ UploadForLobby
    \/ AssignStored
    \/ ReorderSecond
    \/ SwitchOffFirst
    \/ RemoveFirst
    \/ DeleteSecond

SpecOverlap == Init /\ [][NextOverlap]_vars

\* ---------------------------------------------- the device registry over its life
CheckIn ==
    \E d \in DeviceIds :
      \E fetched \in FetchAll(PlaylistRows(device_content, media, d, 0)) :
        get_playlist(d, IF d = Lobby THEN Addr ELSE "10.0.0.9", 0, Noon, fetched, clock)

Rename == \E d \in DeviceIds : update_device(d, Some("Lobby TV"), NULL, clock)

AssignAllStored ==
    \E m \in {x.id : x \in media} :
      \E fetched \in Orderings(ActiveDevices(devices)) :
        assign_all_devices(Some(m), NULL, fetched, clock)

NextRegistry ==
    \/ CheckIn
    \/ Rename
    \/ AddTestDevices
    \/ UploadForLobby
    \/ AssignAllStored
    \/ RemoveFirst

SpecRegistry == Init /\ [][NextRegistry]_vars

\* ------------------------------------------------- the schedule of a video over time
\* seconds the uploaded clip runs (the client sends it with the upload)
ClipSeconds == 45

\* start_time / end_time pairs a client may send: neither, both, or only one
ClipWindows == {<<NULL, NULL>>, <<Some("09:00"), Some("17:00")>>, <<Some("09:00"), NULL>>}

UploadClip ==
    \E display_duration \in {NULL, Some(60)}, w \in ClipWindows :
      upload_file("promo.mp4",
                  Some([PlainSchedule(Some(Lobby)) EXCEPT
                          !.video_duration = Some(ClipSeconds),
                          !.display_duration = display_duration,
                          !.start_time = w[1], !.end_time = w[2]]),
                  TRUE, <<>>, clock)

\* the bodies PUT /api/media/<id>/schedule may carry
ClipUpdates ==
    {[days_of_week |-> NULL, display_duration |-> NULL, start_time |-> NULL,
      end_time |-> NULL, start_date |-> NULL, end_date |-> NULL],
     [days_of_week |-> NULL, display_duration |-> Some(60), start_time |-> NULL,
      end_time |-> Some("17:00"), start_date |-> NULL, end_date |-> NULL]}

UpdateClipSchedule ==
    \E m \in MediaIds, data \in ClipUpdates : update_media_schedule(m, data, clock)

UpdateDuration ==
    \E id \in RuleIds, display_duration \in {Some(5), Some(60)} :
      update_device_content(id, display_duration, clock)

NextClip ==
    \/ UploadClip
    \/ AssignExisting
    \/ AssignAllStored
    \/ AddTestDevices
    \/ UpdateClipSchedule
    \/ UpdateDuration

SpecClip == Init /\ [][NextClip]_vars

\* --------------------------------------------------- what a resolve leaves behind
\* a poll of either device, a second after the previous request or with it
PollLater ==
    \E d \in DeviceIds :
      \E fetched \in FetchAll(PlaylistRows(device_content, media, d, 0)) :
        get_playlist(d, IF d = Lobby THEN Addr ELSE "10.0.0.9", 0, Noon, fetched,
                     LaterInstant)

NextRead ==
    \/ PollLater
    \/ AddTestDevices
    \/ UploadForLobby
    \/ UploadBadTime
    \/ Playback

SpecRead == Init /\ [][NextRead]_vars

\* ------------------------------------------- the refactored build's resolver path
\* AppConfig.get_server_ip(): the same socket probe as get_server_ip, on the same host
server_ip == SERVER_IP

\* DeviceService.register_device_checkin
DeviceService_register_device_checkin(dv, device_id, ip_address, now) ==
    LET existing_device == {d \in dv : d.device_id = device_id}
    IN  IF existing_device # {}
        THEN (dv \ existing_device) \cup
             {[d EXCEPT !.last_checkin = Some(now), !.is_active = TRUE,
                        !.ip_address = Some(ip_address)] : d \in existing_device}
        ELSE dv \cup {[device_id |-> device_id, device_name |-> <<"TV-", First8(device_id)>>,
                       custom_name |-> NULL, location |-> NULL,
                       last_checkin |-> Some(now), is_active |-> TRUE,
                       ip_address |-> Some(ip_address)]}

\* mutant: the time window is not looked at
should_play_content_any_time(content_row, current_day, current_time) ==
    LET days_json == content_row.dc.days_of_week
        days_of_week == IF days_json # NULL THEN Val(days_json) ELSE <<"all">>
        listed == {days_of_week[i] : i \in DOMAIN days_of_week}
    IN  \/ "all" \in listed
        \/ current_day \in listed
        \/ current_day \in {"mon", "tue", "wed", "thu", "fri"} /\ "weekdays" \in listed
        \/ current_day \in {"sat", "sun"} /\ "weekends" \in listed

\* DeviceService._should_play_content
should_play_content(content_row, current_day, current_time) ==
    LET days_json == content_row.dc.days_of_week
        start_time_str == content_row.dc.start_time
        end_time_str == content_row.dc.end_time
        days_of_week == IF days_json # NULL THEN Val(days_json) ELSE <<"all">>
        listed == {days_of_week[i] : i \in DOMAIN days_of_week}
        day_ok ==
            \/ "all" \in listed
            \/ current_day \in listed
            \/ current_day \in {"mon", "tue", "wed", "thu", "fri"} /\ "weekdays" \in listed
            \/ current_day \in {"sat", "sun"} /\ "weekends" \in listed
        time_ok ==
            IF TruthyStr(start_time_str) /\ TruthyStr(end_time_str)
            THEN LET start_time == fromisoformat(Val(start_time_str))
                     end_time == fromisoformat(Val(end_time_str))
                 IN  start_time <= current_time /\ current_time <= end_time
            ELSE TRUE
    IN  day_ok /\ time_ok

\* the 'playlist' list DeviceService.get_device_playlist builds from the fetched rows
get_device_playlist(fetched, current_day, current_time) ==
    LET kept == SelectSeq(fetched,
                          LAMBDA row : should_play_content(row, current_day, current_time))
    IN  [i \in 1..Len(kept) |->
           [id |-> kept[i].dc.media_id, filename |-> kept[i].m.filename,
            file_type |-> kept[i].m.file_type,
            display_duration |-> kept[i].dc.display_duration,
            play_order |-> kept[i].dc.play_order,
            url |-> <<"http://", server_ip, ":5000/uploads/", kept[i].m.filename>>]]

\* GET /api/playlist/<device_id> of the refactored build
refactored_get_playlist(device_id, remote_addr, today, current_time, fetched, now) ==
    /\ At(now)
    /\ fetched \in FetchAll(PlaylistRows(device_content, media, device_id, today))
    /\ lastCall' = Call("DeviceService.get_device_playlist", Some(device_id), NULL,
                        [remote_addr |-> remote_addr, today |-> today,
                         current_time |-> current_time, fetched |-> fetched])
    /\ devices' = DeviceService_register_device_checkin(devices, device_id, remote_addr, now)
    /\ committed_checkins' = 1
    /\ response' =
         IF \E i \in DOMAIN fetched :
              /\ TruthyStr(fetched[i].dc.start_time) /\ TruthyStr(fetched[i].dc.end_time)
              /\ ValueError \in {fromisoformat(Val(fetched[i].dc.start_time)),
                                 fromisoformat(Val(fetched[i].dc.end_time))}
         THEN Reply(500, "Failed to get playlist", 0, <<>>)
         ELSE Reply(200, "", 0,
                    get_device_playlist(fetched, strftime_a(today), current_time))
    /\ UNCHANGED <<media, media_seq, device_content, content_seq, playback_analytics,
                   uploads, LAST_CONTENT_UPDATE>>

\* the lobby device polls the refactored build on a Monday or a Saturday, in or
\* after the window 08:00-20:00
RefactoredPoll ==
    \E today \in {0, 5}, current_time \in {TenOClock, HMS(21, 0, 0)} :
      \E fetched \in FetchAll(PlaylistRows(device_content, media, Lobby, today)) :
        refactored_get_playlist(Lobby, Addr, today, current_time, fetched, LaterInstant)

RenameLobby == update_device(Lobby, Some("Lobby TV"), Some("Hall"), clock)

NextResolvers ==
    \/ UploadDays
    \/ UploadBadTime
    \/ RenameLobby
    \/ RefactoredPoll

SpecResolvers == Init /\ [][NextResolvers]_vars

\* ------------------------------------------------ assign_content, statement by statement
\* on server thread t; the two SELECTs run outside any transaction, the INSERT
\* and its commit are one write transaction

\* the duplicate check (and the reply when the pair is already assigned)
assign_check(t, device_id, media_id) ==
    /\ inflight[t].pc = "idle"
    /\ IF ActiveAssignments(device_content, device_id, media_id) # {}
       THEN /\ lastCall' = Call("assign_content", Some(device_id), Some(media_id), NULL)
            /\ response' = Reply(400, "Content already assigned to this device", 0, <<>>)
            /\ committed_checkins' = 0
            /\ UNCHANGED inflight
       ELSE /\ inflight' = [inflight EXCEPT ![t] =
                              [Idle EXCEPT !.pc = "checked", !.device_id = device_id,
                                           !.media_id = media_id]]
            /\ UNCHANGED <<lastCall, response, committed_checkins>>
    /\ UNCHANGED <<tables, uploads, LAST_CONTENT_UPDATE, clock, supervisor>>

\* SELECT COALESCE(MAX(play_order), 0) + 1
assign_next_order(t) ==
    /\ inflight[t].pc = "checked"
    /\ inflight' = [inflight EXCEPT
                      ![t].pc = "ordered",
                      ![t].next_order = NextPlayOrder(device_content, inflight[t].device_id)]
    /\ UNCHANGED <<tables, uploads, LAST_CONTENT_UPDATE, clock, lastCall, response,
                   committed_checkins, supervisor>>

\* the INSERT, the commit, update_content_timestamp and the reply
assign_insert(t) ==
    /\ inflight[t].pc = "ordered"
    /\ content_seq < MaxRules
    /\ device_content' = device_content \cup
         {Rule(content_seq + 1, inflight[t].device_id, inflight[t].media_id,
               DefaultSchedule(DefaultDuration), Some(inflight[t].next_order), clock)}
    /\ content_seq' = content_seq + 1
    /\ update_content_timestamp(clock)
    /\ lastCall' = Call("assign_content", Some(inflight[t].device_id),
                        Some(inflight[t].media_id), NULL)
    /\ response' = Reply(200, "Content assigned successfully", 0, <<>>)
    /\ committed_checkins' = 0
    /\ inflight' = [inflight EXCEPT ![t] = Idle]
    /\ UNCHANGED <<media, media_seq, devices, playback_analytics, uploads, clock, supervisor>>

\* a second passes on the server's clock
Tick ==
    /\ clock < MaxClock
    /\ clock' = clock + 1
    /\ UNCHANGED <<tables, uploads, LAST_CONTENT_UPDATE, lastCall, response,
                   committed_checkins, inflight, supervisor>>

\* ------------------------------------------------------- assigns that overlap
\* an upload to the library, without a schedule
UploadPlain == upload_file("logo.png", NULL, TRUE, <<>>, clock)

\* requests in flight
Busy == {t \in Threads : inflight[t].pc # "idle"}

\* thread t assigns media t to the lobby device: two assigns for the same
\* device and different media
RaceCheck ==
    \E t \in Threads :
      /\ \E x \in media : x.id = t
      /\ content_seq + Cardinality(Busy) < MaxRules
      /\ assign_check(t, Lobby, t)

RaceNextOrder == \E t \in Threads : assign_next_order(t)

RaceInsert == \E t \in Threads : assign_insert(t)

NextRace ==
    \/ UploadPlain
    \/ RaceCheck
    \/ RaceNextOrder
    \/ RaceInsert
    \/ PollLobby
    \/ Tick

SpecRace == Init /\ [][NextRace]_vars

\* either thread assigns the first media file to the lobby device, and so does
\* an assign-to-all: assigns for the same (device, media) pair
PairCheck ==
    \E t \in Threads :
      /\ \E x \in media : x.id = 1
      /\ content_seq + Cardinality(Busy) < MaxRules
      /\ assign_check(t, Lobby, 1)

AssignAllFirst ==
    /\ \E x \in media : x.id = 1
    /\ content_seq + Cardinality(Busy) < MaxRules
    /\ \E fetched \in Orderings(ActiveDevices(devices)) :
         assign_all_devices(Some(1), NULL, fetched, clock)

NextPairRace ==
    \/ UploadPlain
    \/ PollLobby
    \/ PairCheck
    \/ RaceNextOrder
    \/ RaceInsert
    \/ AssignAllFirst

SpecPairRace == Init /\ [][NextPairRace]_vars

\* --------------------------------- one request at a time, no reorder and no toggle
UploadForAll ==
    \E fetched \in Orderings(ActiveDevices(devices)) :
      upload_file("logo.png", Some(PlainSchedule(Some("all"))), TRUE, fetched, clock)

RemoveAny == \E id \in RuleIds : remove_content(id, clock)

DeleteStored == \E m \in {x.id : x \in media} : delete_media(m, TRUE, clock)

RescheduleStored ==
    \E m \in {x.id : x \in media} :
      update_media_schedule(m, [days_of_week |-> Some(<<"weekends">>),
                                display_duration |-> Some(30), start_time |-> NULL,
                                end_time |-> NULL, start_date |-> NULL,
                                end_date |-> NULL], clock)

NextSequential ==
    \/ AddTestDevices
    \/ UploadForLobby
    \/ UploadForAll
    \/ AssignStored
    \/ AssignExisting
    \/ AssignAllStored
    \/ RescheduleStored
    \/ RemoveAny
    \/ DeleteStored

SpecSequential == Init /\ [][NextSequential]_vars

\* ------------------------------------------------------ server_hot_restart.py
\* every step of the supervisor leaves the application's state alone
SupervisorOnly ==
    UNCHANGED <<tables, uploads, LAST_CONTENT_UPDATE, clock, lastCall, response,
                committed_checkins, inflight>>

\* keyboard.wait('r') returns (at most MaxRestarts presses are followed)
key_pressed ==
    /\ supervisor.monitor = "wait_key"
    /\ supervisor.restarts < MaxRestarts
    /\ supervisor' = [supervisor EXCEPT !.monitor = "pressed", !.restarts = @ + 1]
    /\ SupervisorOnly

\* if server_proc: terminate() (or CTRL_BREAK_EVENT) is sent to that process
monitor_terminate ==
    /\ supervisor.monitor = "pressed"
    /\ supervisor' =
         IF supervisor.server_proc # 0
         THEN [supervisor EXCEPT !.monitor = "wait",
                                 !.doomed = @ \cup ({supervisor.server_proc} \cap supervisor.alive)]
         ELSE [supervisor EXCEPT !.monitor = "spawn"]
    /\ SupervisorOnly

\* a server process that was sent the signal exits
server_exits ==
    /\ \E p \in supervisor.doomed :
         supervisor' = [supervisor EXCEPT !.alive = @ \ {p}, !.doomed = @ \ {p}]
    /\ SupervisorOnly

\* server_proc.wait() of monitor_keys returns: the process server_proc names
\* now has exited
monitor_wait ==
    /\ supervisor.monitor = "wait"
    /\ supervisor.server_proc \notin supervisor.alive
    /\ supervisor' = [supervisor EXCEPT !.monitor = "spawn"]
    /\ SupervisorOnly

\* threading.Thread(target=start_server, daemon=True).start()
monitor_spawn ==
    /\ supervisor.monitor = "spawn"
    /\ supervisor' = [supervisor EXCEPT !.monitor = "wait_key", !.starting = @ + 1]
    /\ SupervisorOnly

\* start_server: subprocess.Popen(server_cmd) returns a new process
start_server_popen ==
    /\ supervisor.starting > 0
    /\ LET p == supervisor.spawned + 1
       IN  supervisor' = [supervisor EXCEPT !.starting = @ - 1, !.spawned = p,
                                            !.alive = @ \cup {p}, !.storing = @ \cup {p}]
    /\ SupervisorOnly

\* start_server: the handle is stored in the global server_proc; the thread
\* then blocks in server_proc.wait()
start_server_store ==
    /\ \E p \in supervisor.storing :
         supervisor' = [supervisor EXCEPT !.server_proc = p, !.storing = @ \ {p}]
    /\ SupervisorOnly

NextSupervisor ==
    \/ key_pressed
    \/ monitor_terminate
    \/ server_exits
    \/ monitor_wait
    \/ monitor_spawn
    \/ start_server_popen
    \/ start_server_store

SpecSupervisor == Init /\ [][NextSupervisor]_vars

\* ------------------------------------------- the refactored build's assign route
\* POST /api/assign-content of broken_production_app.py: the INSERT names no
\* play_order (the column's DEFAULT 0 is stored) and no content marker is kept
refactored_assign_content(device_id, media_id, display_duration, now) ==
    /\ At(now)
    /\ lastCall' = Call("assign_content", device_id, media_id, display_duration)
    /\ committed_checkins' = 0
    /\ IF ~TruthyStr(device_id) \/ ~TruthyInt(media_id)
       THEN /\ response' = Reply(400, "Device ID and Media ID required", 0, <<>>)
            /\ UNCHANGED <<tables, uploads, LAST_CONTENT_UPDATE>>
       ELSE IF \E r \in device_content :
                  /\ r.device_id = Val(device_id) /\ r.media_id = Val(media_id)
                  /\ r.is_active
       THEN /\ response' = Reply(400, "Content already assigned to this device", 0, <<>>)
            /\ UNCHANGED <<tables, uploads, LAST_CONTENT_UPDATE>>
       ELSE /\ content_seq < MaxRules
            /\ device_content' = device_content \cup
                 {Rule(content_seq + 1, Val(device_id), Val(media_id),
                       DefaultSchedule(Get(display_duration, DefaultDuration)),
                       Some(0), now)}
            /\ content_seq' = content_seq + 1
            /\ response' = Reply(200, "Content assigned successfully", 0, <<>>)
            /\ UNCHANGED <<media, media_seq, devices, playback_analytics, uploads,
                           LAST_CONTENT_UPDATE>>

RefactoredAssign ==
    \E d \in DeviceIds, m \in {x.id : x \in media} :
      refactored_assign_content(Some(d), Some(m), NULL, clock)

AssignEither ==
    \E d \in DeviceIds, m \in {x.id : x \in media} :
      assign_content(Some(d), Some(m), NULL, clock)

NextAssignBuilds ==
    \/ UploadPlain
    \/ AssignEither
    \/ RefactoredAssign
    \/ RemoveAny

SpecAssignBuilds == Init /\ [][NextAssignBuilds]_vars

\* ==================================================================== claims
\* rows the step inserted into device_content (ids are never reused)
InsertedRules == {r \in device_content' : r.id > content_seq}
\* the rows that were there before the step, as they are after it
KeptRules == {r \in device_content' : r.id <= content_seq}

\* C1: in every reachable state no device has two rules with is_active set
\* that reference the same media.
C1_ActivePairUnique ==
    \A r1, r2 \in device_content :
        (r1.is_active /\ r2.is_active /\ r1.device_id = r2.device_id
           /\ r1.media_id = r2.media_id) => r1.id = r2.id

OrdersOf(rows, d) ==
    {Val(r.play_order) : r \in {x \in rows : x.device_id = d /\ x.play_order # NULL}}
Creates == {"assign_content", "assign_all_devices", "upload_file"}

\* C5 as claimed: every rule created by assign, assignToAll or upload gets
\* play_order = max over ALL rules of its device + 1 (1 when there are none),
\* whatever their liveness.
C5_AppendsAfterAllRules ==
    [][lastCall'.op \in Creates =>
         \A r \in InsertedRules :
            LET orders == OrdersOf(device_content, r.device_id)
            IN  r.play_order = Some(IF orders = {} THEN 1 ELSE Max(orders) + 1)]_vars

\* C9: assignToAll(media) inserts exactly one active rule of that media for
\* each active device that has no active rule for it, inserts nothing else
\* (devices that hold the pair, inactive or unregistered devices), leaves the
\* existing rules as they are and returns the number of rules inserted.
C9_AssignAllCreatesMissing ==
    [][(lastCall'.op = "assign_all_devices" /\ lastCall'.media_id # NULL)
       => LET m == Val(lastCall'.media_id)
              lacking == {d.device_id :
                            d \in {x \in devices :
                                     /\ x.is_active
                                     /\ ~\E r \in device_content :
                                           /\ r.is_active /\ r.media_id = m
                                           /\ r.device_id = x.device_id}}
          IN  /\ response'.status = 200
              /\ KeptRules = device_content
              /\ \A r \in InsertedRules :
                    r.media_id = m /\ r.is_active /\ r.device_id \in lacking
              /\ \A d \in lacking :
                    Cardinality({r \in InsertedRules : r.device_id = d}) = 1
              /\ response'.count = Cardinality(InsertedRules)
              /\ response'.count = Cardinality(lacking)]_vars

\* C9 witness: assignToAll over the N >= 2 active devices, one of which held
\* the assignment already, has just returned N - 1.
C9_Witness ==
    /\ lastCall.op = "assign_all_devices" /\ response.status = 200
    /\ Cardinality({d \in devices : d.is_active}) >= 2
    /\ response.count = Cardinality({d \in devices : d.is_active}) - 1
    /\ \E r \in device_content :
          /\ r.id <= content_seq - response.count
          /\ r.is_active /\ <<r.media_id>> = lastCall.media_id
          /\ \E d \in devices : d.is_active /\ d.device_id = r.device_id

\* the rules of device d that qualify at (today, current_time): active, date
\* bounds admitting today, day predicate and time predicate both true
Qualifying(d, today, current_time) ==
    {r \in device_content :
        /\ r.device_id = d
        /\ r.is_active
        /\ (r.start_date = NULL \/ Val(r.start_date) <= today)
        /\ (r.end_date = NULL \/ Val(r.end_date) >= today)
        /\ day_matches(r.days_of_week, strftime_a(today))
        /\ time_matches(r.start_time, r.end_time, current_time)}

\* C3: every resolve succeeds and its playlist holds exactly the qualifying
\* rules of the device, one entry per rule (the entry carries the rule's media
\* id, duration and play_order); with no qualifying rule it is the empty playlist
C3_ResolveReturnsQualifying ==
    [][lastCall'.op = "get_playlist" =>
         LET q == Qualifying(Val(lastCall'.device_id), lastCall'.arg.today,
                             lastCall'.arg.current_time)
         IN  /\ response'.status = 200
             /\ \E s \in Orderings(q) :
                  /\ Len(response'.playlist) = Len(s)
                  /\ \A i \in DOMAIN s :
                       /\ response'.playlist[i].id = s[i].media_id
                       /\ response'.playlist[i].display_duration = s[i].display_duration
                       /\ response'.playlist[i].play_order = s[i].play_order]_vars

\* the rule behind a playlist entry of device d
RuleOf(d, entry) ==
    CHOOSE r \in device_content :
        /\ r.device_id = d /\ r.is_active
        /\ r.media_id = entry.id /\ r.play_order = entry.play_order

\* play_order as a sort key, an absent play_order lowest
OrderKey(play_order) == IF play_order = NULL THEN -1 ELSE Val(play_order)

\* the rules behind the entries of the playlist just returned, in its order
Listed ==
    [i \in DOMAIN response'.playlist |->
        RuleOf(Val(lastCall'.device_id), response'.playlist[i])]

\* C4 as stated: the playlist is in (play_order, creation) order, so rules with
\* equal play_order always appear in the order they were created
C4_EqualOrderInCreationOrder ==
    [][lastCall'.op = "get_playlist" /\ response'.status = 200 =>
         \A i, j \in DOMAIN Listed :
            i < j => \/ OrderKey(Listed[i].play_order) < OrderKey(Listed[j].play_order)
                     \/ /\ Listed[i].play_order = Listed[j].play_order
                        /\ Listed[i].id < Listed[j].id]_vars

\* C4 amended: the playlist is in (play_order, created_at) order with an absent
\* play_order first, rules equal in play_order and in created_at (same second)
\* in either order; and after reorder(device, [(r1,3),(r2,1)]) every resolve
\* that lists both rules lists r2 before r1
C4_OrderedByPlayOrderThenCreatedAt ==
    [][/\ lastCall'.op = "get_playlist" /\ response'.status = 200 =>
            \A i, j \in DOMAIN Listed :
               i < j => \/ OrderKey(Listed[i].play_order) < OrderKey(Listed[j].play_order)
                        \/ /\ Listed[i].play_order = Listed[j].play_order
                           /\ Listed[i].created_at <= Listed[j].created_at
       /\ lastCall'.op = "reorder_device_content" =>
            LET content_order == lastCall'.arg
                d == Val(lastCall'.device_id)
                r1 == content_order[1].assignment_id
                r2 == content_order[2].assignment_id
                dc == device_content'
                md == media'
            IN  /\ content_order[1].play_order = Some(3)
                /\ content_order[2].play_order = Some(1)
                => \A fetched \in FetchAll(PlaylistRows(dc, md, d, 0)) :
                     \A i, j \in DOMAIN fetched :
                        fetched[i].dc.id = r1 /\ fetched[j].dc.id = r2 => j < i]_vars

\* C4 witness: a resolve after a reorder lists the rule created later (for
\* media 2, now play_order 1) before the rule created first (now play_order 3)
C4_Witness ==
    /\ lastCall.op = "get_playlist"
    /\ Len(response.playlist) = 2
    /\ response.playlist[1].id = 2 /\ response.playlist[1].play_order = Some(1)
    /\ response.playlist[2].id = 1 /\ response.playlist[2].play_order = Some(3)

\* the rows of table dv for device d
RowsOf(dv, d) == {x \in dv : x.device_id = d}

\* C6: every playlist request leaves exactly one check-in of the requesting
\* device behind (one device row, stamped with the request's time and address,
\* committed once), whether the reply is a playlist, an empty playlist or an error
C6_OneCheckinPerResolve ==
    [][lastCall'.op = "get_playlist" =>
         LET d == Val(lastCall'.device_id)
         IN  /\ committed_checkins' = 1
             /\ Cardinality(RowsOf(devices', d)) = 1
             /\ \A x \in RowsOf(devices', d) :
                  /\ x.last_checkin = Some(clock')
                  /\ x.ip_address = Some(lastCall'.arg.remote_addr)
                  /\ x.is_active
             /\ devices' \ RowsOf(devices', d) = devices \ RowsOf(devices, d)]_vars

\* C6 witness: a playlist request failed and its check-in is on record
C6_Witness ==
    /\ lastCall.op = "get_playlist"
    /\ response.status = 500
    /\ committed_checkins = 1
    /\ \E x \in devices : /\ x.device_id = Val(lastCall.device_id)
                          /\ x.last_checkin = Some(clock)

\* C7: a check-in of a registered device changes only last_checkin, is_active
\* and ip_address of its row; custom_name and location of a registered device
\* change only in an update_device call for it, to the values that call gave
\* (a missing key is stored as ''); device_name of a registered device never
\* changes
C7_CheckinKeepsMetadata ==
    [][\A x \in devices :
         \E y \in devices' :
            /\ y.device_id = x.device_id
            /\ Cardinality(RowsOf(devices', x.device_id)) = 1
            /\ y.device_name = x.device_name
            /\ IF lastCall'.op = "update_device" /\ lastCall'.device_id = Some(x.device_id)
               THEN /\ y.custom_name = Some(Get(lastCall'.arg[1], ""))
                    /\ y.location = Some(Get(lastCall'.arg[2], ""))
                    /\ y.last_checkin = x.last_checkin
                    /\ y.is_active = x.is_active /\ y.ip_address = x.ip_address
               ELSE /\ y.custom_name = x.custom_name
                    /\ y.location = x.location
                    /\ (lastCall'.op = "get_playlist" /\ lastCall'.device_id = Some(x.device_id))
                       \/ y = x]_vars

\* C7 witness: a device whose custom name was set has checked in afterwards,
\* from another address, and still carries the name
C7_Witness ==
    /\ lastCall.op = "get_playlist"
    /\ \E x \in devices :
         /\ x.device_id = Val(lastCall.device_id)
         /\ x.custom_name = Some("Lobby TV")
         /\ x.ip_address = Some("10.0.0.9")
         /\ x.last_checkin = Some(clock) /\ clock > 0

\* C8: a delete_media(m) that reports success leaves no media row m, no rule
\* and no analytics record with media_id m; a delete_media of a media id that
\* has no row (every id once deleted, since ids are never handed out again)
\* reports 404 and changes no table, no file and not the content marker
C8_DeleteMediaCascades ==
    [][/\ \A x \in media' \ media : x.id > media_seq
       /\ lastCall'.op = "delete_media" =>
            LET m == Val(lastCall'.media_id)
            IN  IF \A x \in media : x.id # m
                THEN /\ response'.status = 404
                     /\ UNCHANGED <<tables, uploads, LAST_CONTENT_UPDATE>>
                ELSE /\ response'.status \in {200, 500}
                     /\ response'.status = 200 =>
                          /\ \A x \in media' : x.id # m
                          /\ \A r \in device_content' : r.media_id # m
                          /\ \A a \in playback_analytics' : a.media_id # Some(m)
                          /\ \A x \in media : x.id = m => x.filename \notin uploads']_vars

\* C8 witness: media 1 was uploaded with its rule and then deleted (its row,
\* its rule and its file are gone), and deleting it again has just been
\* answered with 404
C8_Witness ==
    /\ lastCall.op = "delete_media" /\ lastCall.media_id = Some(1)
    /\ response.status = 404
    /\ media_seq = 1 /\ content_seq = 1
    /\ media = {} /\ device_content = {} /\ uploads = {}

\* the minute of the day an HH:MM string names
MinuteOf(str) == IF str = "09:00" THEN 9 * 60 ELSE 17 * 60

\* the rules of the polled device that have a time window
Windowed ==
    {r \in device_content :
        /\ r.device_id = Val(lastCall'.device_id)
        /\ r.start_time # NULL /\ r.end_time # NULL}

\* the playlist just returned has an entry for rule r
Lists(r) == \E i \in DOMAIN response'.playlist : response'.playlist[i].id = r.media_id

\* C10 as stated: a windowed rule is listed exactly when the minute of the poll
\* lies within [start_time, end_time], so a 09:00-17:00 rule is listed at any
\* instant of the minute 17:00
C10_InclusiveToTheMinute ==
    [][lastCall'.op = "get_playlist" =>
         /\ response'.status = 200
         /\ \A r \in Windowed :
              Lists(r) <=> /\ MinuteOf(Val(r.start_time)) <= lastCall'.arg.current_time \div 60
                           /\ lastCall'.arg.current_time \div 60 <= MinuteOf(Val(r.end_time))]_vars

\* C10 amended: a windowed rule is listed exactly when start_time:00 <= poll
\* instant <= end_time:00, the instant taken at full precision: a 09:00-17:00
\* rule is out at 08:59:59, in from 09:00:00 through 17:00:00, and out again
\* from the first instant after 17:00:00 (17:00:30 included); a rule whose
\* start_time is later than its end_time is never listed, and the poll succeeds
C10_InclusiveToTheInstant ==
    [][lastCall'.op = "get_playlist" =>
         /\ response'.status = 200
         /\ \A r \in Windowed :
              /\ Lists(r) <=> /\ MinuteOf(Val(r.start_time)) * 60 <= lastCall'.arg.current_time
                              /\ lastCall'.arg.current_time <= MinuteOf(Val(r.end_time)) * 60
              /\ MinuteOf(Val(r.start_time)) > MinuteOf(Val(r.end_time)) => ~Lists(r)]_vars

\* C10 witness: a poll at 17:00:30 of a device whose only rule has the window
\* 09:00-17:00 got an empty playlist
C10_Witness ==
    /\ lastCall.op = "get_playlist"
    /\ lastCall.arg.current_time = HMS(17, 0, 30)
    /\ response.status = 200 /\ response.playlist = <<>>
    /\ Cardinality(device_content) = 1
    /\ \A r \in device_content :
         r.device_id = Lobby /\ r.start_time = Some("09:00") /\ r.end_time = Some("17:00")

\* the weekday list stored on rule r contains token
HasDay(r, token) ==
    r.days_of_week # NULL /\ \E i \in DOMAIN Val(r.days_of_week) : Val(r.days_of_week)[i] = token

\* the media ids of the playlist just returned, in its order
ListedMedia == [i \in DOMAIN response'.playlist |-> response'.playlist[i].id]

\* C11: at 10:00 (inside every 08:00-20:00 window) a rule with a weekday list
\* is listed exactly when the list has 'all', or the token of the poll's
\* weekday, or 'weekdays' on Monday..Friday, or 'weekends' on Saturday or
\* Sunday; with M1 = {weekdays, 08:00-20:00, order 1} and M2 = {all, no window,
\* order 2} the playlist is [M1, M2] on a Wednesday and [M2] on a Saturday
C11_DayPredicate ==
    [][lastCall'.op = "get_playlist" =>
         LET today == lastCall'.arg.today
             token == <<"mon", "tue", "wed", "thu", "fri", "sat", "sun">>[today + 1]
             mine == {r \in device_content : r.device_id = Val(lastCall'.device_id)}
         IN  /\ response'.status = 200
             /\ \A r \in mine :
                  Lists(r) <=> \/ HasDay(r, "all")
                               \/ HasDay(r, token)
                               \/ HasDay(r, "weekdays") /\ today \in 0..4
                               \/ HasDay(r, "weekends") /\ today \in 5..6
             /\ (\E m1, m2 \in mine :
                   /\ mine = {m1, m2}
                   /\ m1.media_id = 1 /\ m1.days_of_week = Some(<<"weekdays">>)
                   /\ m1.start_time = Some("08:00") /\ m1.end_time = Some("20:00")
                   /\ m1.play_order = Some(1)
                   /\ m2.media_id = 2 /\ m2.days_of_week = Some(<<"all">>)
                   /\ m2.start_time = NULL /\ m2.play_order = Some(2))
                => /\ today = 2 => ListedMedia = <<1, 2>>
                   /\ today = 5 => ListedMedia = <<2>>]_vars

\* C11 witness: the Saturday poll of a device holding M1 (weekdays, windowed)
\* and M2 (all) returned M2 alone
C11_Witness ==
    /\ lastCall.op = "get_playlist" /\ lastCall.arg.today = 5
    /\ Len(response.playlist) = 1 /\ response.playlist[1].id = 2
    /\ \E m1, m2 \in device_content :
         /\ device_content = {m1, m2}
         /\ m1.media_id = 1 /\ m1.days_of_week = Some(<<"weekdays">>)
         /\ m1.start_time = Some("08:00")
         /\ m2.media_id = 2 /\ m2.days_of_week = Some(<<"all">>)

\* C12: every rule created or last updated with a missing or empty weekday
\* list (all rules of this state machine) is listed on every day of the week
C12_NoDaysBehaveAsAll ==
    [][lastCall'.op = "get_playlist" =>
         /\ response'.status = 200
         /\ \A r \in device_content :
              r.device_id = Val(lastCall'.device_id) /\ (\E m \in media : m.id = r.media_id)
              => Lists(r)]_vars

\* no active rule references media m
Off(dc, m) == \A r \in dc : r.media_id = m => ~r.is_active

\* C13: a toggle(m, v) step sets is_active to v on every rule of media m, on
\* every device, and leaves every other rule and every other field as it was;
\* while no active rule references m no playlist lists m, and that state,
\* which toggle(m, false) establishes, ends only with a toggle(m, true) or with
\* a request that creates a rule for m
C13_ToggleIsBulk ==
    [][/\ lastCall'.op = "toggle_media_status" =>
            LET m == Val(lastCall'.media_id)
            IN  /\ device_content' =
                     {IF r.media_id = m THEN [r EXCEPT !.is_active = lastCall'.arg] ELSE r :
                         r \in device_content}
                /\ {r.id : r \in device_content'} = {r.id : r \in device_content}
                /\ lastCall'.arg = FALSE => Off(device_content', m)
       /\ \A m \in MediaIds :
            /\ Off(device_content, m) /\ lastCall'.op = "get_playlist"
               => \A i \in DOMAIN response'.playlist : response'.playlist[i].id # m
            /\ Off(device_content, m) /\ ~Off(device_content', m)
               => \/ lastCall'.op = "toggle_media_status" /\ lastCall'.media_id = Some(m)
                                                          /\ lastCall'.arg = TRUE
                  \/ lastCall'.op \in Creates /\ \E r \in InsertedRules : r.media_id = m]_vars

\* C13 witness: media 1 is switched off on both devices that carry it, and the
\* playlist just served to one of them does not list it
C13_Witness ==
    /\ lastCall.op = "get_playlist"
    /\ \E m \in media : m.id = 1
    /\ \A d \in DeviceIds : \E r \in device_content :
          r.device_id = d /\ r.media_id = 1 /\ ~r.is_active
    /\ Off(device_content, 1)
    /\ \A i \in DOMAIN response.playlist : response.playlist[i].id # 1

\* C14: an update_media_schedule(m, data) step gives every rule of media m, on
\* every device, the same weekday list (['all'] when missing or empty), the
\* same display duration (10 when missing), time window and date window, keeps
\* their id, device, media, play_order, is_active, video_duration and
\* created_at, and keeps every rule of another media as it was; no rule is
\* added or removed
C14_UpdateScheduleIsBulk ==
    [][lastCall'.op = "update_media_schedule" =>
         LET m == Val(lastCall'.media_id)
             data == lastCall'.arg
             days == IF data.days_of_week \in {NULL, Some(<<>>)} THEN Some(<<"all">>)
                     ELSE data.days_of_week
             duration == IF data.display_duration = NULL THEN Some(10)
                         ELSE data.display_duration
         IN  /\ Cardinality(device_content') = Cardinality(device_content)
             /\ \A r \in device_content :
                  \E u \in device_content' :
                     /\ u.id = r.id
                     /\ IF r.media_id # m THEN u = r
                        ELSE /\ u.days_of_week = days
                             /\ u.display_duration = duration
                             /\ u.start_time = data.start_time /\ u.end_time = data.end_time
                             /\ u.start_date = data.start_date /\ u.end_date = data.end_date
                             /\ u.device_id = r.device_id /\ u.media_id = r.media_id
                             /\ u.play_order = r.play_order /\ u.is_active = r.is_active
                             /\ u.video_duration = r.video_duration
                             /\ u.created_at = r.created_at]_vars

\* C14 witness: the schedule of media 1, carried by both devices (once switched
\* off), has just been rewritten with a window, and the rule of media 2 has none
C14_Witness ==
    /\ lastCall.op = "update_media_schedule" /\ lastCall.media_id = Some(1)
    /\ \A d \in DeviceIds : \E r \in device_content :
          /\ r.device_id = d /\ r.media_id = 1
          /\ r.start_time = Some("09:00") /\ r.display_duration = Some(30)
          /\ r.days_of_week = Some(<<"weekends">>)
    /\ \E r \in device_content : r.media_id = 1 /\ ~r.is_active
    /\ \E r \in device_content : r.media_id = 2 /\ r.start_time = NULL

\* C15: a reorder(d, items) step with distinct rule ids gives each listed rule
\* of device d the play_order of its item; a listed rule of another device and
\* every rule not listed keep theirs; no other field changes and no rule is
\* added or removed
C15_ReorderScopedToDevice ==
    [][lastCall'.op = "reorder_device_content" =>
         LET d == Val(lastCall'.device_id)
             items == lastCall'.arg
         IN  /\ Cardinality(device_content') = Cardinality(device_content)
             /\ \A r \in device_content :
                  \E u \in device_content' :
                     /\ u.id = r.id
                     /\ [u EXCEPT !.play_order = r.play_order] = r
                     /\ \A i \in DOMAIN items :
                          items[i].assignment_id = r.id /\ r.device_id = d
                          => u.play_order = items[i].play_order
                     /\ (r.device_id # d \/ \A i \in DOMAIN items : items[i].assignment_id # r.id)
                          => u.play_order = r.play_order]_vars

\* C15 witness: reorder(lobby, [(rule 2, null), (rule 3, 1)]) moved rule 3 of
\* the lobby device to 1 and left rule 2, which is another device's, at 1
C15_Witness ==
    /\ lastCall.op = "reorder_device_content" /\ lastCall.device_id = Some(Lobby)
    /\ lastCall.arg = <<[assignment_id |-> 2, play_order |-> NULL],
                        [assignment_id |-> 3, play_order |-> Some(1)]>>
    /\ \E r \in device_content :
          r.id = 2 /\ r.device_id = "SPOOF001" /\ r.play_order = Some(1)
    /\ \E r \in device_content : r.id = 3 /\ r.device_id = Lobby /\ r.play_order = Some(1)
    /\ \E r \in device_content : r.id = 1 /\ r.device_id = Lobby /\ r.play_order = Some(1)

\* C16: a remove(rule) step deletes the rule with that id and nothing else:
\* every other rule stays as it was (play_order included), and the media
\* table, the analytics table, the devices and the stored files are unchanged
C16_RemoveDeletesOneRule ==
    [][lastCall'.op = "remove_content" =>
         /\ device_content' = {r \in device_content : r.id # lastCall'.arg}
         /\ Cardinality(device_content \ device_content') <= 1
         /\ UNCHANGED <<media, media_seq, playback_analytics, devices, content_seq,
                        uploads>>]_vars

\* C16 witness: rule 1 (media 1 on the lobby device, play_order 1) has been
\* removed; the device's other rule still has play_order 2, and media 1 and
\* its analytics record are still there
C16_Witness ==
    /\ lastCall.op = "remove_content" /\ lastCall.arg = 1
    /\ content_seq >= 2
    /\ \A r \in device_content : r.id # 1
    /\ \E r \in device_content : r.device_id = Lobby /\ r.play_order = Some(2)
    /\ \E m \in media : m.id = 1
    /\ \E a \in playback_analytics : a.media_id = Some(1)

\* C17: every successful request that changes a rule or a media record, made
\* at a later clock reading than the request before it, leaves the content
\* marker later than it was
C17_ChangeMovesMarker ==
    [][/\ device_content' # device_content \/ media' # media
       /\ response'.status = 200
       /\ clock' > clock
       => LAST_CONTENT_UPDATE' > LAST_CONTENT_UPDATE]_vars

\* C18: a delete_media of an existing media whose file removal fails still
\* answers 200, with the media row, its rules and its analytics gone
C18_FileFailureNotPropagated ==
    [][/\ lastCall'.op = "delete_media"
       /\ lastCall'.arg = FALSE
       /\ \E x \in media : x.id = Val(lastCall'.media_id)
       => /\ response'.status = 200
          /\ \A x \in media' : x.id # Val(lastCall'.media_id)
          /\ \A r \in device_content' : r.media_id # Val(lastCall'.media_id)
          /\ \A a \in playback_analytics' : a.media_id # lastCall'.media_id]_vars

\* the request just handled names a record that does not exist
NamesAbsentRecord ==
    \/ /\ lastCall'.op = "assign_content"
       /\ TruthyStr(lastCall'.device_id) /\ TruthyInt(lastCall'.media_id)
       /\ \/ \A x \in media : x.id # Val(lastCall'.media_id)
          \/ \A x \in devices : x.device_id # Val(lastCall'.device_id)
    \/ /\ lastCall'.op = "assign_all_devices"
       /\ TruthyInt(lastCall'.media_id)
       /\ \A x \in media : x.id # Val(lastCall'.media_id)
    \/ /\ lastCall'.op = "remove_content"
       /\ \A r \in device_content : r.id # lastCall'.arg
    \/ /\ lastCall'.op = "reorder_device_content"
       /\ \E i \in DOMAIN lastCall'.arg :
            \A r \in device_content : r.id # lastCall'.arg[i].assignment_id

\* C19: a request that names an absent media, device or rule is not answered
\* with success and leaves the rules as they were
C19_AbsentRecordReported ==
    [][NamesAbsentRecord => response'.status # 200 /\ device_content' = device_content]_vars

PlaylistsOf(store, d, today, current_time) ==
    {BuildPlaylist(f, strftime_a(today), current_time) :
        f \in FetchAll(PlaylistRows(store.dc, store.md, d, today))}

\* C21: the playlist a resolve returns is a playlist of one single state of the
\* rule store, the one its SELECT read between the call's check-in and its
\* return, whatever assign, reorder, toggle, remove, upload or deleteMedia
\* calls committed before or after that statement
C21_PlaylistFromOneState ==
    [][\A t \in Threads :
         inflight[t].pc = "selected" /\ inflight'[t].pc = "idle"
         => /\ response'.status = 200
            /\ response'.playlist \in
                 PlaylistsOf(inflight[t].store, inflight[t].device_id, inflight[t].today,
                             inflight[t].current_time)]_vars

\* C21 witness: a resolve has returned two entries although one of the two
\* rules was removed between its SELECT and its return
C21_Witness ==
    /\ lastCall.op = "get_playlist"
    /\ Len(response.playlist) = 2
    /\ Cardinality({r \in device_content : r.device_id = Lobby}) = 1
    /\ inflight[1].pc = "idle"

\* C22: a device that has a registry record keeps one in every later state and
\* its liveness flag is true: no check-in, metadata update or assignment
\* operation removes the record or sets is_active to false
C22_RegisteredStaysAlive ==
    [][/\ \A d \in devices : \E e \in devices' : e.device_id = d.device_id
       /\ \A e \in devices' : e.is_active]_vars

\* C22 witness: after the check-in of one device, the check-in of another, a
\* metadata update and an assign-to-all, both devices are registered and alive
C22_Witness ==
    /\ lastCall.op = "assign_all_devices"
    /\ response.status = 200
    /\ \E d, e \in devices :
         /\ d.device_id = Lobby /\ d.is_active /\ d.custom_name = Some("Lobby TV")
         /\ e.device_id = "SPOOF001" /\ e.is_active /\ e.ip_address = Some("10.0.0.9")

\* C23: every rule whose media is a video with a known intrinsic duration has
\* a display_duration of at least that duration, after any sequence of uploads
\* with a schedule, assigns, assign-to-alls, schedule updates and per-rule
\* display-duration updates
C23_DisplayCoversVideo ==
    \A r \in device_content, x \in media :
      r.media_id = x.id /\ x.file_type = "video" /\ x.video_duration # NULL
      => r.display_duration # NULL /\ Val(r.display_duration) >= Val(x.video_duration)

\* C24: every rule has start_time and end_time both present or both absent
C24_WindowBoundsPaired ==
    \A r \in device_content : (r.start_time = NULL) <=> (r.end_time = NULL)

\* C25: apart from the check-in on the requesting device's registry record, a
\* resolve leaves every rule, every media record, every analytics record, every
\* other device record and the last-content-change marker unchanged
C25_ResolveOnlyChecksIn ==
    [][lastCall'.op = "get_playlist" =>
         /\ device_content' = device_content
         /\ content_seq' = content_seq
         /\ media' = media
         /\ media_seq' = media_seq
         /\ uploads' = uploads
         /\ playback_analytics' = playback_analytics
         /\ LAST_CONTENT_UPDATE' = LAST_CONTENT_UPDATE
         /\ {d \in devices' : d.device_id # Val(lastCall'.device_id)}
              = {d \in devices : d.device_id # Val(lastCall'.device_id)}]_vars

\* C25 witness: a resolve has answered for a device whose check-in is a second
\* later than another device's record, with rules, media and analytics stored
C25_Witness ==
    /\ lastCall.op = "get_playlist"
    /\ response.status = 200
    /\ Len(response.playlist) = 1
    /\ media # {} /\ device_content # {} /\ playback_analytics # {}
    /\ \E d, e \in devices :
         /\ d.device_id = Val(lastCall.device_id)
         /\ e.device_id # d.device_id
         /\ Val(e.last_checkin) < Val(d.last_checkin)

\* C29: from the same devices, rules and media and with the same device id,
\* address and clock value, the refactored resolver returns what the inline
\* resolver of get_playlist returns (the same entries in the same order, or the
\* same failure) and leaves the device record the inline check-in leaves
C29_ResolversEquivalent ==
    [][lastCall'.op = "DeviceService.get_device_playlist" =>
         LET a == lastCall'.arg
             raised == \E i \in DOMAIN a.fetched :
                          TimeRaises(a.fetched[i].dc.start_time, a.fetched[i].dc.end_time)
         IN  /\ devices' = register_device_checkin(devices, Val(lastCall'.device_id),
                                                   a.remote_addr, clock')
             /\ response' =
                  IF raised THEN Reply(500, "Failed to get playlist", 0, <<>>)
                  ELSE Reply(200, "", 0,
                             BuildPlaylist(a.fetched, strftime_a(a.today), a.current_time))]_vars

\* C29 witness: the refactored resolver has answered a renamed lobby device
\* after the window, leaving out one of its two rules
C29_Witness ==
    /\ lastCall.op = "DeviceService.get_device_playlist"
    /\ Len(lastCall.arg.fetched) = 2
    /\ Len(response.playlist) = 1
    /\ lastCall.arg.current_time = HMS(21, 0, 0)
    /\ \E d \in devices : d.device_id = Lobby /\ d.custom_name = Some("Lobby TV")

\* active rules of one device with the same play_order, for different media
EqualOrderPairs(d) ==
    {p \in device_content \X device_content :
        /\ p[1].device_id = d /\ p[2].device_id = d
        /\ p[1].is_active /\ p[2].is_active
        /\ p[1].media_id # p[2].media_id
        /\ p[1].play_order = p[2].play_order}

\* C26 as stated: after two overlapping assigns have left two rules of a device
\* with equal play_order, a resolve lists the two in the order they were created
C26_EqualOrderListedAsCreated ==
    [][lastCall'.op = "get_playlist" /\ response'.status = 200 =>
         \A i, j \in DOMAIN Listed :
            i < j /\ Listed[i].play_order = Listed[j].play_order
            => Listed[i].id <= Listed[j].id]_vars

\* C26 amended: two rules of a device left with equal play_order by overlapping
\* assigns are listed by a resolve in created_at order; when both were inserted
\* within the same second either may come first
C26_EqualOrderListedByCreatedAt ==
    [][lastCall'.op = "get_playlist" /\ response'.status = 200 =>
         \A i, j \in DOMAIN Listed :
            i < j /\ Listed[i].play_order = Listed[j].play_order
            => Listed[i].created_at <= Listed[j].created_at]_vars

\* C26 witness: two assigns for the lobby device and different media both read
\* next play_order 1 and both inserted, and a resolve has listed the two rules
C26_Witness ==
    /\ lastCall.op = "get_playlist"
    /\ Val(lastCall.device_id) = Lobby
    /\ Len(response.playlist) = 2
    /\ response.playlist[1].play_order = Some(1)
    /\ response.playlist[2].play_order = Some(1)
    /\ response.playlist[1].id # response.playlist[2].id
    /\ EqualOrderPairs(Lobby) # {}

\* C27: overlapping assigns (or an assign and an assign-to-all) for the same
\* (device, media) pair cannot both insert: the pair has at most one active rule
C27_ConcurrentPairUnique ==
    \A r1, r2 \in device_content :
       /\ r1.is_active /\ r2.is_active
       /\ r1.device_id = r2.device_id /\ r1.media_id = r2.media_id
       => r1 = r2

\* C28: with one request at a time and only assign, assign-to-all, upload with a
\* schedule, schedule update, remove and media delete, the active rules of each
\* device have pairwise-distinct play_order values, each at least 1
C28_SequentialOrdersDistinct ==
    /\ \A r \in device_content :
         r.is_active => r.play_order # NULL /\ Val(r.play_order) >= 1
    /\ \A r1, r2 \in device_content :
         /\ r1.is_active /\ r2.is_active
         /\ r1.device_id = r2.device_id /\ r1.id # r2.id
         => r1.play_order # r2.play_order

\* C28 witness: after a remove of its first rule and a later assign the lobby
\* device holds two active rules, with play_order 2 and 3
C28_Witness ==
    /\ lastCall.op \in {"assign_content", "assign_all_devices", "upload_file"}
    /\ {r.play_order : r \in {x \in device_content : x.device_id = Lobby /\ x.is_active}}
         = {Some(2), Some(3)}
    /\ Cardinality({x \in device_content : x.device_id = Lobby}) = 2

\* C30: under the hot-restart supervisor at most one server process is alive
\* at any time, for any sequence and timing of 'r' key presses
C30_AtMostOneServerAlive == Cardinality(supervisor.alive) <= 1



==============================================================================
